---- MODULE Spec2Model ----
(***************************************************************************)
(* Model of the agent_scaling_laws coordination architectures:             *)
(* SingleAgent, IndependentMultiAgent, CentralizedMultiAgent,              *)
(* DecentralizedMultiAgent and HybridMultiAgent.  One instance is built by *)
(* Init (its architecture, configuration and size are chosen there) and    *)
(* the actions are the calls made on it.  The ArchitectureSelector is       *)
(* modelled beside it, with the calls made on a selector.                  *)
(***************************************************************************)
EXTENDS Integers, Sequences, FiniteSets, TLC

\* ---------------------------------------------------------------- bounds
MaxAgents == 3
MaxTeamSize == 2
MaxLen == 3
MaxCalls == 2
MaxExecs == 6
Precision == 8
FracBits == 13

\* ------------------------------------------------------ program constants
DefaultTokensPerTask == 100
DefaultCoordinationTokensPerTask == 10
DefaultCommunicationTokensPerMessage == 5
DefaultCoordinationRounds == 2
DefaultStrategyTokens == 20
DefaultTeamCommTokens == 3
DefaultAggregationTokens == 15

\* ------------------------------------------------------------ Python values
\* Every Python value the model handles is a tagged record, so that a task,
\* an output and a context entry live in one universe.
None == [tag |-> "none"]
Str(s) == [tag |-> "str", v |-> s]
Num(n) == [tag |-> "int", n |-> n]
Fn(b) == [tag |-> "fn", beh |-> b]
List(s) == [tag |-> "list", items |-> s]

\* callable(task)
Callable(task) == task.tag = "fn"

\* The element of a set of one element: The({e(x) : x \in {v}}) is e(v),
\* with v computed once.
The(S) == CHOOSE x \in S : TRUE

\* isinstance(task, (list, tuple))
IsSequence(task) == task.tag = "list"

\* A dict is a function from its keys; {} is the function with no key.
EmptyDict == [k \in {} |-> None]

\* {**a, **b}: a new dict, b's entries winning.
Merge(a, b) ==
    [k \in (DOMAIN a) \cup (DOMAIN b) |-> IF k \in DOMAIN b THEN b[k] ELSE a[k]]

\* d.get(key, default)
Get(d, key, default) == IF key \in DOMAIN d THEN d[key] ELSE default

\* An optional context argument: Python's None, or a dict.
NoContext == [isNone |-> TRUE, map |-> EmptyDict]
Ctx(d) == [isNone |-> FALSE, map |-> d]

\* Truthiness of `context`: None and {} are falsy.
Truthy(context) == ~context.isNone /\ DOMAIN context.map # {}

\* context or {}
OrEmpty(context) == IF Truthy(context) THEN context.map ELSE EmptyDict

\* --------------------------------------------------------------- base.py
TaskResult(success, output, tokens, error, metadata) ==
    [success |-> success, output |-> output, tokens_used |-> tokens,
     error |-> error, metadata |-> metadata]

\* A Message; `written` is a history stamp: the number of the execute call
\* during which the message was created.
Message(sender, content, type, metadata, call) ==
    [sender_id |-> sender, content |-> content, message_type |-> type,
     metadata |-> metadata, written |-> call]

\* Agent.__init__: the counters and the message log of a fresh agent.
NewAgent ==
    [tokens_used |-> 0, tasks_completed |-> 0, errors_count |-> 0,
     message_history |-> <<>>]

\* Agent.send_message: the message is stored in the sender's own history.
SendMessage(agent, message) ==
    [agent EXCEPT !.message_history = Append(@, message)]

\* Agent.receive_message
ReceiveMessage(agent, message) ==
    [agent EXCEPT !.message_history = Append(@, message)]

\* A variant of ResetMetrics that leaves errors_count as it is (C26 tells it
\* from the code).
ResetMetricsKeepErrors(agent) ==
    [agent EXCEPT !.tokens_used = 0, !.tasks_completed = 0,
                  !.message_history = <<>>]

\* Agent.reset_metrics
ResetMetrics(agent) ==
    [agent EXCEPT !.tokens_used = 0, !.tasks_completed = 0,
                  !.errors_count = 0, !.message_history = <<>>]

\* ------------------------------------------------------- task invocations
\* What one invocation of a callable task does is an outcome: it raises an
\* Exception (err numbers the exception, so that the texts of different
\* exceptions differ), or it returns ret; before it returns it may empty the
\* dict it finds under "global_state" in its context
\* (ctx["global_state"].clear()), or leave a note in it
\* (ctx["global_state"]["note"] = ...; notes is then the number of the
\* execute call during which it does so, a history stamp, and else 0), or
\* append to the list it finds under "team_messages" the first message of
\* that list (b = ctx["team_messages"]; b.append(b[0]) if b is not empty).
Raise(e) ==
    [raises |-> TRUE, ret |-> None, err |-> e, clears |-> FALSE, notes |-> 0,
     echoes |-> FALSE]
Return(v) ==
    [raises |-> FALSE, ret |-> v, err |-> 0, clears |-> FALSE, notes |-> 0,
     echoes |-> FALSE]
ClearAndReturn(v) ==
    [raises |-> FALSE, ret |-> v, err |-> 0, clears |-> TRUE, notes |-> 0,
     echoes |-> FALSE]
NoteAndReturn(v, call) ==
    [raises |-> FALSE, ret |-> v, err |-> 0, clears |-> FALSE, notes |-> call,
     echoes |-> FALSE]
EchoAndReturn(v) ==
    [raises |-> FALSE, ret |-> v, err |-> 0, clears |-> FALSE, notes |-> 0,
     echoes |-> TRUE]

\* The key of a note: one that is the key of no worker and of no team.
NoteKey == -1

\* str(e) of exception number e.
ExcStr(e) == [tag |-> "str", exc |-> e]

\* The behaviours of callable tasks:
\*   "script": ignores its context; what each invocation does is drawn by
\*             the caller of the model (an outcome);
\*   "marker": returns ctx.get("mark") and then sets ctx["mark"] = "w".
Behaviours == {"script", "marker"}

\* task(ctx): the outcome of the invocation and the dict's content after it.
Invoke(task, ctx, oc) ==
    IF task.beh = "marker"
    THEN [oc |-> Return(Get(ctx, "mark", None)),
          ctx |-> Merge(ctx, [mark |-> Str("w")])]
    ELSE [oc |-> oc,
          ctx |-> IF oc.clears /\ "global_state" \in DOMAIN ctx
                  THEN Merge(ctx, [global_state |-> EmptyDict])
                  ELSE IF oc.notes # 0 /\ "global_state" \in DOMAIN ctx
                  THEN Merge(ctx,
                           [global_state |->
                               Merge(ctx.global_state,
                                     [k \in {NoteKey} |->
                                         [val |-> oc.ret, written |-> oc.notes]])])
                  ELSE IF oc.echoes /\ "team_messages" \in DOMAIN ctx
                          /\ ctx.team_messages # <<>>
                  THEN Merge(ctx,
                           [team_messages |->
                               Append(ctx.team_messages, ctx.team_messages[1])])
                  ELSE ctx]

\* --------------------------------------------------------- single_agent.py
SingleMetadata(id) == [architecture |-> "single", agent_id |-> id]

\* A variant of TokensPerTask that ignores the configuration (C4 tells it
\* from the code).
TokensPerTaskFixed(cap) == DefaultTokensPerTask

\* The per-task token cost read from the configuration.
TokensPerTask(cap) == Get(cap, "tokens_per_task", DefaultTokensPerTask)

\* The result of a successful SingleAgent.execute_task.
SingleSuccess(id, cap, output) ==
    TaskResult(TRUE, output, TokensPerTask(cap), None, SingleMetadata(id))

\* The result of the except branch of SingleAgent.execute_task.
SingleFailure(id, e) ==
    TaskResult(FALSE, None, 0, ExcStr(e), SingleMetadata(id))

\* The counters after the success path.
SingleCountSuccess(agent, cap) ==
    [agent EXCEPT !.tokens_used = @ + TokensPerTask(cap),
                  !.tasks_completed = @ + 1]

\* A variant of SingleCountFailure that charges the failed attempt (C5
\* tells it from the code).
SingleCountFailureCharged(agent) ==
    [agent EXCEPT !.errors_count = @ + 1, !.tokens_used = @ + 1]

\* The counters after the except branch.
SingleCountFailure(agent) ==
    [agent EXCEPT !.errors_count = @ + 1]

\* A variant of SingleExec that zeroes the agent's counters and log before
\* it counts the execution (C25 tells it from the code).
SingleExecFresh(agent, id, cap, task, context, oc) ==
    LET arg == OrEmpty(context)
        inv == IF Callable(task) THEN Invoke(task, arg, oc)
               ELSE [oc |-> Return(task), ctx |-> arg]
        after == IF Callable(task) /\ Truthy(context) THEN Ctx(inv.ctx) ELSE context
        calls == IF Callable(task)
                 THEN << [arg |-> arg, raised |-> inv.oc.raises,
                          ret |-> inv.oc.ret, err |-> inv.oc.err] >>
                 ELSE <<>>
    IN  IF inv.oc.raises
        THEN [agent |-> SingleCountFailure(ResetMetrics(agent)),
              result |-> SingleFailure(id, inv.oc.err),
              invoked |-> calls, context |-> after]
        ELSE [agent |-> SingleCountSuccess(ResetMetrics(agent), cap),
              result |-> SingleSuccess(id, cap, inv.oc.ret),
              invoked |-> calls, context |-> after]

\* A variant of SingleExec that invokes the first item of a sequence of
\* callables instead of taking the sequence as a value (C36 tells it from
\* the code).
SingleExecItems(agent, id, cap, task, context, oc) ==
    LET arg == OrEmpty(context)
        run == IF IsSequence(task) /\ task.items # <<>>
                  /\ Callable(task.items[1])
               THEN task.items[1] ELSE task
        inv == IF Callable(run) THEN Invoke(run, arg, oc)
               ELSE [oc |-> Return(run), ctx |-> arg]
        after == IF Callable(run) /\ Truthy(context) THEN Ctx(inv.ctx) ELSE context
        calls == IF Callable(run)
                 THEN << [arg |-> arg, raised |-> inv.oc.raises,
                          ret |-> inv.oc.ret, err |-> inv.oc.err] >>
                 ELSE <<>>
    IN  IF inv.oc.raises
        THEN [agent |-> SingleCountFailure(agent),
              result |-> SingleFailure(id, inv.oc.err),
              invoked |-> calls, context |-> after]
        ELSE [agent |-> SingleCountSuccess(agent, cap),
              result |-> SingleSuccess(id, cap, inv.oc.ret),
              invoked |-> calls, context |-> after]

\* SingleAgent.execute_task(task, context) on the agent `agent` named `id`;
\* oc is what the task does if it is invoked.  Gives the agent afterwards,
\* the result, the invocations of the task (none for a task that is not
\* callable: the dict it was invoked with and what it did) and the caller's
\* context afterwards (the task was given that very dict unless it is
\* falsy).
SingleExec(agent, id, cap, task, context, oc) ==
    LET arg == OrEmpty(context)
        inv == IF Callable(task) THEN Invoke(task, arg, oc)
               ELSE [oc |-> Return(task), ctx |-> arg]
        after == IF Callable(task) /\ Truthy(context) THEN Ctx(inv.ctx) ELSE context
        calls == IF Callable(task)
                 THEN << [arg |-> arg, raised |-> inv.oc.raises,
                          ret |-> inv.oc.ret, err |-> inv.oc.err] >>
                 ELSE <<>>
    IN  IF inv.oc.raises
        THEN [agent |-> SingleCountFailure(agent),
              result |-> SingleFailure(id, inv.oc.err),
              invoked |-> calls, context |-> after]
        ELSE [agent |-> SingleCountSuccess(agent, cap),
              result |-> SingleSuccess(id, cap, inv.oc.ret),
              invoked |-> calls, context |-> after]

\* ------------------------------------------------------------ arithmetic
Max(a, b) == IF a >= b THEN a ELSE b
Min(a, b) == IF a <= b THEN a ELSE b

RECURSIVE SumTokens(_)
\* sum(r.tokens_used for r in results)
SumTokens(results) ==
    IF results = <<>> THEN 0
    ELSE results[1].tokens_used + SumTokens(Tail(results))

\* [r for r in results if r.success]
Successful(results) == SelectSeq(results, LAMBDA r : r.success)

\* [r.output for r in results]
Outputs(results) == [i \in 1..Len(results) |-> results[i].output]

\* ---------------------------------------------------------- centralized.py
\* A variant of DecomposeTask that gives the workers contiguous blocks of
\* items (C11 tells it from the code).
DecomposeTaskBlocks(task, n) ==
    IF IsSequence(task)
    THEN [i \in 1..Len(task.items) |->
            [agent |-> ((i - 1) * n) \div Len(task.items),
             subtask |-> task.items[i]]]
    ELSE << [agent |-> 0, subtask |-> task] >>

\* CentralizedMultiAgent._decompose_task: the (worker index, subtask) pairs.
DecomposeTask(task, n) ==
    IF IsSequence(task)
    THEN [i \in 1..Len(task.items) |->
            [agent |-> (i - 1) % n, subtask |-> task.items[i]]]
    ELSE << [agent |-> 0, subtask |-> task] >>

CoordinationTokens(cap) ==
    Get(cap, "coordination_tokens_per_task", DefaultCoordinationTokensPerTask)

\* The context the coordinator hands to a worker.
EnrichedContext(context, gs) ==
    Merge(OrEmpty(context), [global_state |-> gs])

\* The write of a successful subtask into global_state; `written` is a
\* history stamp: the number of the execute call that wrote the entry.
GlobalStateAfter(gs, key, result, call) ==
    IF result.success
    THEN Merge(gs, [k \in {key} |-> [val |-> result.output, written |-> call]])
    ELSE gs

\* A variant of CoordinateOne that charges the coordination of successful
\* subtasks only (C12 tells it from the code).
CoordinateOneChargeSuccess(st, asg, cap, context, oc, call) ==
    LET w == asg.agent
        enriched == EnrichedContext(context, st.global_state)
        r == SingleExec(st.agents[w + 1], w, cap, asg.subtask, Ctx(enriched), oc)
    IN  [st EXCEPT !.agents[w + 1] = r.agent,
                   !.results = Append(@, r.result),
                   !.handed = Append(@, enriched),
                   !.assigned = Append(@, [unit |-> w, task |-> asg.subtask]),
                   !.global_state =
                       GlobalStateAfter(r.context.map.global_state, w,
                                        r.result, call),
                   !.self.tokens_used =
                       @ + (IF r.result.success THEN CoordinationTokens(cap)
                            ELSE 0)]

\* One iteration of the loop of _coordinate_execution.  The context holds
\* the coordinator's global_state dict itself, so what the task did to that
\* dict is done to self.global_state.
CoordinateOne(st, asg, cap, context, oc, call) ==
    LET w == asg.agent
        enriched == EnrichedContext(context, st.global_state)
        r == SingleExec(st.agents[w + 1], w, cap, asg.subtask, Ctx(enriched), oc)
    IN  [st EXCEPT !.agents[w + 1] = r.agent,
                   !.results = Append(@, r.result),
                   !.handed = Append(@, enriched),
                   !.assigned = Append(@, [unit |-> w, task |-> asg.subtask]),
                   !.global_state =
                       GlobalStateAfter(r.context.map.global_state, w,
                                        r.result, call),
                   !.self.tokens_used = @ + CoordinationTokens(cap)]

RECURSIVE CoordinateExecution(_, _, _, _, _, _, _)
\* CentralizedMultiAgent._coordinate_execution, from assignment j on.
CoordinateExecution(st, assignments, cap, context, ocs, call, j) ==
    IF j > Len(assignments) THEN st
    ELSE CoordinateExecution(
             CoordinateOne(st, assignments[j], cap, context, ocs[j], call),
             assignments, cap, context, ocs, call, j + 1)

\* total_tokens of an aggregation: the results' tokens plus the
\* coordinator's own counter.
TotalTokens(self, results) == SumTokens(results) + self.tokens_used

\* A variant of FinalOutput that gives a list whatever the number of
\* outputs (C13 tells it from the code).
FinalOutputList(outputs) == List(outputs)

\* final_output of _aggregate_results and _aggregate_team_results.
FinalOutput(outputs) == IF Len(outputs) = 1 THEN outputs[1] ELSE List(outputs)

\* A variant of AggregateResults in which the coordinator counts the failed
\* subtasks of a call that succeeds as its own errors (C33 tells it from the
\* code).
AggregateResultsCountFailed(self, results, n) ==
    LET ok == Successful(results)
        total == TotalTokens(self, results)
    IN  IF ok # <<>>
        THEN [self |-> [self EXCEPT !.tasks_completed = @ + Len(ok),
                                    !.errors_count = @ + Len(results) - Len(ok)],
              result |-> TaskResult(TRUE, FinalOutput(Outputs(ok)), total, None,
                  [architecture |-> "centralized", num_agents |-> n,
                   successful_subtasks |-> Len(ok),
                   failed_subtasks |-> Len(results) - Len(ok),
                   coordination_overhead |-> self.tokens_used])]
        ELSE [self |-> [self EXCEPT !.errors_count = @ + Len(results)],
              result |-> TaskResult(FALSE, None, total, Str("All subtasks failed"),
                  [architecture |-> "centralized", num_agents |-> n])]

\* CentralizedMultiAgent._aggregate_results: the coordinator and the result.
AggregateResults(self, results, n) ==
    LET ok == Successful(results)
        total == TotalTokens(self, results)
    IN  IF ok # <<>>
        THEN [self |-> [self EXCEPT !.tasks_completed = @ + Len(ok)],
              result |-> TaskResult(TRUE, FinalOutput(Outputs(ok)), total, None,
                  [architecture |-> "centralized", num_agents |-> n,
                   successful_subtasks |-> Len(ok),
                   failed_subtasks |-> Len(results) - Len(ok),
                   coordination_overhead |-> self.tokens_used])]
        ELSE [self |-> [self EXCEPT !.errors_count = @ + Len(results)],
              result |-> TaskResult(FALSE, None, total, Str("All subtasks failed"),
                  [architecture |-> "centralized", num_agents |-> n])]

\* global_state at the start of CentralizedMultiAgent.execute_task and of
\* HybridMultiAgent.execute_task.
ResetGlobalState(gs) == EmptyDict

\* CentralizedMultiAgent.execute_task on the composite st.
CentralizedExecute(st, cap, n, task, context, ocs, call) ==
    LET start == [st EXCEPT !.global_state = ResetGlobalState(@),
                            !.results = <<>>, !.handed = <<>>,
                            !.assigned = <<>>]
        run == CoordinateExecution(start, DecomposeTask(task, n), cap,
                                   context, ocs, call, 1)
        agg == AggregateResults(run.self, run.results, n)
    IN  [run EXCEPT !.self = agg.self, !.result = agg.result]

\* -------------------------------------------------------- decentralized.py
CommunicationTokens(cap) ==
    Get(cap, "communication_tokens_per_message",
        DefaultCommunicationTokensPerMessage)

\* A variant of CoordinationRounds that makes one round whatever the
\* configuration (C17 tells it from the code).
CoordinationRoundsOne(cap) == 1

\* A variant of CoordinationRounds that makes one round at least (C39 tells
\* it from the code).
CoordinationRoundsPositive(cap) ==
    Max(1, Get(cap, "coordination_rounds", DefaultCoordinationRounds))

\* self.capabilities.get("coordination_rounds", 2)
CoordinationRounds(cap) ==
    Get(cap, "coordination_rounds", DefaultCoordinationRounds)

\* A variant of DeliverToPeers in which the sender receives its own message
\* (C16 tells it from the code).
DeliverToAll(agents, sender, message) ==
    [i \in 1..Len(agents) |-> ReceiveMessage(agents[i], message)]

\* Every agent but the sender receives the message.
DeliverToPeers(agents, sender, message) ==
    [i \in 1..Len(agents) |->
        IF i - 1 # sender THEN ReceiveMessage(agents[i], message) ELSE agents[i]]

\* DecentralizedMultiAgent._broadcast_message
BroadcastMessage(st, cap, n, sender, message) ==
    [st EXCEPT !.shared_messages = Append(@, message),
               !.self.tokens_used = @ + CommunicationTokens(cap) * (n - 1),
               !.agents = DeliverToPeers(@, sender, message)]

\* A variant of PeerMessages that shows a peer its own messages too (C15
\* tells it from the code).
PeerMessagesAll(shared, peer) == shared

\* The messages of the shared buffer a peer is shown.
PeerMessages(shared, peer) == SelectSeq(shared, LAMBDA m : m.sender_id # peer)

\* peer_context of _peer_to_peer_coordination
PeerContext(context, round, shared, peer) ==
    Merge(OrEmpty(context),
          [round |-> round, peer_messages |-> PeerMessages(shared, peer)])

\* One peer's turn in one round.
PeerOne(st, cap, n, task, context, round, peer, oc, call) ==
    LET pc == PeerContext(context, round, st.shared_messages, peer)
        r == SingleExec(st.agents[peer + 1], peer, cap, task, Ctx(pc), oc)
        ran == [st EXCEPT !.agents[peer + 1] = r.agent,
                          !.results = Append(@, r.result),
                          !.handed = Append(@, pc),
                          !.assigned = Append(@, [unit |-> peer, task |-> task])]
    IN  IF r.result.success
        THEN BroadcastMessage(ran, cap, n, peer,
                 Message(peer, r.result.output, "task_result",
                         [round |-> round], call))
        ELSE ran

RECURSIVE PeerToPeerCoordination(_, _, _, _, _, _, _, _)
\* DecentralizedMultiAgent._peer_to_peer_coordination, from the j-th
\* execution on: execution j is peer (j-1) % n of round (j-1) \div n.
PeerToPeerCoordination(st, cap, n, task, context, ocs, call, j) ==
    IF j > CoordinationRounds(cap) * n THEN st
    ELSE PeerToPeerCoordination(
             PeerOne(st, cap, n, task, context, (j - 1) \div n, (j - 1) % n,
                     ocs[j], call),
             cap, n, task, context, ocs, call, j + 1)

\* A variant of ConsensusOutput that takes the earliest successful result
\* (C18 tells it from the code).
ConsensusOutputFirst(ok) == ok[1].output

\* The output of a consensus: that of the latest successful result.
ConsensusOutput(ok) == ok[Len(ok)].output

\* DecentralizedMultiAgent._consensus_aggregation
ConsensusAggregation(self, results, n, shared) ==
    LET ok == Successful(results)
        total == TotalTokens(self, results)
    IN  IF ok # <<>>
        THEN [self |-> [self EXCEPT !.tasks_completed = @ + Len(ok)],
              result |-> TaskResult(TRUE, ConsensusOutput(ok), total, None,
                  [architecture |-> "decentralized", num_agents |-> n,
                   successful_results |-> Len(ok),
                   failed_results |-> Len(results) - Len(ok),
                   messages_exchanged |-> Len(shared),
                   communication_overhead |-> self.tokens_used])]
        ELSE [self |-> [self EXCEPT !.errors_count = @ + Len(results)],
              result |-> TaskResult(FALSE, None, total,
                  Str("No agents reached consensus"),
                  [architecture |-> "decentralized", num_agents |-> n])]

\* A variant of ResetSharedMessages that keeps the buffer of the earlier
\* call (C2 tells it from the code).
KeepSharedMessages(shared) == shared

\* shared_messages at the start of DecentralizedMultiAgent.execute_task.
ResetSharedMessages(shared) == <<>>

\* A variant of DecentralizedExecute that empties the peers' message logs
\* together with the shared buffer (C35 tells it from the code).
DecentralizedExecuteFreshLogs(st, cap, n, task, context, ocs, call) ==
    LET start == [st EXCEPT !.shared_messages = ResetSharedMessages(@),
                            !.agents = [i \in DOMAIN @ |->
                                           [@[i] EXCEPT !.message_history = <<>>]],
                            !.results = <<>>, !.handed = <<>>,
                            !.assigned = <<>>]
        run == PeerToPeerCoordination(start, cap, n, task, context, ocs, call, 1)
        agg == ConsensusAggregation(run.self, run.results, n, run.shared_messages)
    IN  [run EXCEPT !.self = agg.self, !.result = agg.result]

\* DecentralizedMultiAgent.execute_task on the composite st.
DecentralizedExecute(st, cap, n, task, context, ocs, call) ==
    LET start == [st EXCEPT !.shared_messages = ResetSharedMessages(@),
                            !.results = <<>>, !.handed = <<>>,
                            !.assigned = <<>>]
        run == PeerToPeerCoordination(start, cap, n, task, context, ocs, call, 1)
        agg == ConsensusAggregation(run.self, run.results, n, run.shared_messages)
    IN  [run EXCEPT !.self = agg.self, !.result = agg.result]

\* ---------------------------------------------------------------- hybrid.py
\* HybridMultiAgent.__init__: the number of teams.
NumTeams(n, size) == Max(1, n \div size)

StrategyTokens(cap) == Get(cap, "strategy_tokens", DefaultStrategyTokens)
TeamCommTokens(cap) == Get(cap, "team_comm_tokens", DefaultTeamCommTokens)
AggregationTokens(cap) == Get(cap, "aggregation_tokens", DefaultAggregationTokens)

\* items[start:end] of Python, for 0 <= start and 0 <= end.
Slice(items, start, end) ==
    SubSeq(items, Min(start, Len(items)) + 1, Min(end, Len(items)))

\* A variant of TeamTasks in which the last team gets a chunk of the size
\* of the others (C20 tells it from the code).
TeamTasksEven(task, teams) ==
    IF IsSequence(task)
    THEN LET len == Len(task.items)
             chunk == Max(1, len \div teams)
         IN  [t \in 1..teams |->
                 List(Slice(task.items, (t - 1) * chunk, (t - 1) * chunk + chunk))]
    ELSE [t \in 1..teams |-> IF t = 1 THEN task ELSE None]

\* A variant of TeamTasks in which a team whose chunk is empty gets no task
\* (C37 tells it from the code).
TeamTasksNoneForEmpty(task, teams) ==
    IF IsSequence(task)
    THEN LET len == Len(task.items)
             chunk == Max(1, len \div teams)
             part(t) == Slice(task.items, (t - 1) * chunk,
                              IF t - 1 < teams - 1 THEN (t - 1) * chunk + chunk
                              ELSE len)
         IN  [t \in 1..teams |->
                 IF part(t) = <<>> THEN None ELSE List(part(t))]
    ELSE [t \in 1..teams |-> IF t = 1 THEN task ELSE None]

\* The team tasks of HybridMultiAgent._strategic_decomposition.
TeamTasks(task, teams) ==
    IF IsSequence(task)
    THEN LET len == Len(task.items)
             chunk == Max(1, len \div teams)
         IN  [t \in 1..teams |->
                 List(Slice(task.items, (t - 1) * chunk,
                            IF t - 1 < teams - 1 THEN (t - 1) * chunk + chunk
                            ELSE len))]
    ELSE [t \in 1..teams |-> IF t = 1 THEN task ELSE None]

\* team_context of _team_coordination
TeamContext(context, team, messages, gs) ==
    Merge(OrEmpty(context),
          [team_idx |-> team, team_messages |-> messages, global_state |-> gs])

\* A variant of NoTaskResult that reports the missing task as an error of a
\* successful result (C6 tells it from the code).
NoTaskResultWithError(team) ==
    TaskResult(TRUE, None, 0, Str("no task"),
               [team_idx |-> team, status |-> "no_task"])

\* The result of a team without a task.
NoTaskResult(team) ==
    TaskResult(TRUE, None, 0, None, [team_idx |-> team, status |-> "no_task"])

\* A variant of MemberOne that charges team_comm_tokens for the first member
\* of a team only (C24 tells it from the code).
MemberOneLeadCharged(st, cap, size, team, m, task, context, oc, call) ==
    LET id == team * size + m
        tc == TeamContext(context, team, st.team_messages[team + 1],
                          st.global_state)
        r == SingleExec(st.agents[id + 1], id, cap, task, Ctx(tc), oc)
        ran == [st EXCEPT !.agents[id + 1] = r.agent,
                          !.team_results = Append(@, r.result),
                          !.member_results = Append(@, r.result),
                          !.handed = Append(@, tc),
                          !.global_state = r.context.map.global_state,
                          !.team_messages[team + 1] =
                              r.context.map.team_messages,
                          !.buffers = Append(@, r.context.map.team_messages)]
    IN  IF r.result.success
        THEN [ran EXCEPT !.team_messages[team + 1] =
                             Append(@, Message(id, r.result.output, "team_result",
                                               [team_idx |-> team], call)),
                         !.self.tokens_used =
                             @ + (IF m = 0 THEN TeamCommTokens(cap) ELSE 0)]
        ELSE ran

\* One member's turn: member m of team `team` (both from 0) is agent
\* team * size + m.  The context holds the coordinator's global_state dict
\* itself, so what the task did to that dict is done to self.global_state.
MemberOne(st, cap, size, team, m, task, context, oc, call) ==
    LET id == team * size + m
        tc == TeamContext(context, team, st.team_messages[team + 1],
                          st.global_state)
        r == SingleExec(st.agents[id + 1], id, cap, task, Ctx(tc), oc)
        ran == [st EXCEPT !.agents[id + 1] = r.agent,
                          !.team_results = Append(@, r.result),
                          !.member_results = Append(@, r.result),
                          !.handed = Append(@, tc),
                          !.global_state = r.context.map.global_state,
                          !.team_messages[team + 1] =
                              r.context.map.team_messages,
                          !.buffers = Append(@, r.context.map.team_messages)]
    IN  IF r.result.success
        THEN [ran EXCEPT !.team_messages[team + 1] =
                             Append(@, Message(id, r.result.output, "team_result",
                                               [team_idx |-> team], call)),
                         !.self.tokens_used = @ + TeamCommTokens(cap)]
        ELSE ran

RECURSIVE TeamMembers(_, _, _, _, _, _, _, _, _)
\* The loop over the members of a team, from member m on.
TeamMembers(st, cap, size, team, m, task, context, ocs, call) ==
    IF m >= size THEN st
    ELSE The({TeamMembers(next, cap, size, team, m + 1, task, context, ocs,
                          call) :
                 next \in {MemberOne(st, cap, size, team, m, task, context,
                                     ocs[team * size + m + 1], call)}})

\* A variant of TeamConsensus that takes the output of the first successful
\* member (C21 tells it from the code).
TeamConsensusFirst(team, size, results) ==
    LET ok == Successful(results)
    IN  IF ok # <<>>
        THEN TaskResult(TRUE, ok[1].output, SumTokens(results), None,
                 [team_idx |-> team, team_size |-> size,
                  successful_members |-> Len(ok)])
        ELSE TaskResult(FALSE, None, 0, Str("Team failed to complete task"),
                 [team_idx |-> team])

\* The consensus of a team over its members' results.
TeamConsensus(team, size, results) ==
    LET ok == Successful(results)
    IN  IF ok # <<>>
        THEN TaskResult(TRUE, ok[Len(ok)].output, SumTokens(results), None,
                 [team_idx |-> team, team_size |-> size,
                  successful_members |-> Len(ok)])
        ELSE TaskResult(FALSE, None, 0, Str("Team failed to complete task"),
                 [team_idx |-> team])

\* A variant of TeamCoordination in which the members of a team without a
\* task execute None before the team reports that it had no task (C22 tells
\* it from the code).
TeamCoordinationIdleRun(st, cap, size, team, task, context, ocs, call) ==
    LET run == TeamMembers([st EXCEPT !.team_results = <<>>], cap, size,
                           team, 0, task, context, ocs, call)
    IN  [run EXCEPT !.team_result =
                        IF task = None THEN NoTaskResult(team)
                        ELSE TeamConsensus(team, size, run.team_results)]

\* HybridMultiAgent._team_coordination: the composite afterwards, with the
\* team's result in team_result.
TeamCoordination(st, cap, size, team, task, context, ocs, call) ==
    IF task = None
    THEN [st EXCEPT !.team_result = NoTaskResult(team)]
    ELSE LET run == TeamMembers([st EXCEPT !.team_results = <<>>], cap, size,
                                team, 0, task, context, ocs, call)
         IN  [run EXCEPT !.team_result =
                             TeamConsensus(team, size, run.team_results)]

\* A variant of SuccessfulTeams that counts every successful team, with
\* an output or without (C23 tells it from the code).
SuccessfulTeamsAny(results) == SelectSeq(results, LAMBDA r : r.success)

\* The teams an aggregation counts: successful, with an output.
SuccessfulTeams(results) ==
    SelectSeq(results, LAMBDA r : r.success /\ r.output # None)

\* HybridMultiAgent._aggregate_team_results
AggregateTeamResults(self0, results, teams, size, cap) ==
    LET self == [self0 EXCEPT !.tokens_used = @ + AggregationTokens(cap)]
        ok == SuccessfulTeams(results)
        total == TotalTokens(self, results)
    IN  IF ok # <<>>
        THEN [self |-> [self EXCEPT !.tasks_completed = @ + Len(ok)],
              result |-> TaskResult(TRUE, FinalOutput(Outputs(ok)), total, None,
                  [architecture |-> "hybrid", num_teams |-> teams,
                   team_size |-> size, successful_teams |-> Len(ok),
                   failed_teams |-> Len(results) - Len(ok),
                   coordination_overhead |-> self.tokens_used])]
        ELSE [self |-> [self EXCEPT !.errors_count = @ + Len(results)],
              result |-> TaskResult(FALSE, None, total, Str("All teams failed"),
                  [architecture |-> "hybrid", num_teams |-> teams])]

\* team_messages at the start of HybridMultiAgent.execute_task.
ResetTeamMessages(messages, teams) == [t \in 1..teams |-> <<>>]

\* One iteration of the loop over the teams in execute_task.
TeamOne(st, cap, size, team, task, context, ocs, call) ==
    The({[run EXCEPT !.results = Append(@, run.team_result),
                     !.assigned = Append(@, [unit |-> team, task |-> task]),
                     !.global_state =
                         GlobalStateAfter(@, team, run.team_result, call)] :
            run \in {TeamCoordination(st, cap, size, team, task, context, ocs,
                                      call)}})

RECURSIVE TeamLoop(_, _, _, _, _, _, _, _)
\* The loop over the teams, from team t on.
TeamLoop(st, cap, size, t, tasks, context, ocs, call) ==
    IF t >= Len(tasks) THEN st
    ELSE The({TeamLoop(next, cap, size, t + 1, tasks, context, ocs, call) :
                 next \in {TeamOne(st, cap, size, t, tasks[t + 1], context,
                                   ocs, call)}})

\* HybridMultiAgent.execute_task on the composite st.
HybridExecute(st, cap, n, size, task, context, ocs, call) ==
    LET teams == NumTeams(n, size)
        start == [st EXCEPT !.global_state = ResetGlobalState(@),
                            !.team_messages = ResetTeamMessages(@, teams),
                            !.results = <<>>, !.handed = <<>>,
                            !.assigned = <<>>, !.member_results = <<>>,
                            !.self.tokens_used = @ + StrategyTokens(cap)]
        run == TeamLoop(start, cap, size, 0, TeamTasks(task, teams), context,
                        ocs, call)
        agg == AggregateTeamResults(run.self, run.results, teams, size, cap)
    IN  [run EXCEPT !.self = agg.self, !.result = agg.result]

\* ------------------------------------------------------------ independent.py
\* f"All agents failed. Errors: {errors}"
AllFailedError(errors) == [tag |-> "str", v |-> "All agents failed. Errors: ",
                           list |-> errors]

\* A variant of CollectOne that counts every collected result as a
\* completed task (C7 tells it from the code).
CollectOneAsCompleted(c, self, child, result) ==
    [call |-> [c EXCEPT !.collected = Append(@, child),
                        !.results = Append(@, result),
                        !.total_tokens = @ + result.tokens_used,
                        !.errors = IF result.success THEN @
                                   ELSE Append(@, result.error)],
     self |-> [self EXCEPT !.tasks_completed = @ + 1]]

\* The body of the loop over as_completed for one finished future: the
\* call's local variables and the composite's counters.
CollectOne(c, self, child, result) ==
    [call |-> [c EXCEPT !.collected = Append(@, child),
                        !.results = Append(@, result),
                        !.total_tokens = @ + result.tokens_used,
                        !.errors = IF result.success THEN @
                                   ELSE Append(@, result.error)],
     self |-> IF result.success
              THEN [self EXCEPT !.tasks_completed = @ + 1]
              ELSE [self EXCEPT !.errors_count = @ + 1]]

\* A variant of IndependentResult that takes the last successful result
\* (C8 tells it from the code).
IndependentResultLast(results, total, errors, n) ==
    LET ok == Successful(results)
    IN  IF ok # <<>>
        THEN TaskResult(TRUE, ok[Len(ok)].output, total, None,
                 [architecture |-> "independent", num_agents |-> n,
                  successful_agents |-> Len(ok),
                  failed_agents |-> Len(results) - Len(ok)])
        ELSE TaskResult(FALSE, None, total, AllFailedError(errors),
                 [architecture |-> "independent", num_agents |-> n])

\* The result IndependentMultiAgent.execute_task returns.
IndependentResult(results, total, errors, n) ==
    LET ok == Successful(results)
    IN  IF ok # <<>>
        THEN TaskResult(TRUE, ok[1].output, total, None,
                 [architecture |-> "independent", num_agents |-> n,
                  successful_agents |-> Len(ok),
                  failed_agents |-> Len(results) - Len(ok)])
        ELSE TaskResult(FALSE, None, total, AllFailedError(errors),
                 [architecture |-> "independent", num_agents |-> n])

\* The futures as_completed may yield next: those finished before it was
\* called, in any order, and then the others in the order they finish.
RECURSIVE FirstNotIn(_, _)
FirstNotIn(order, done) ==
    IF order = <<>> THEN {}
    ELSE IF order[1] \in done THEN FirstNotIn(Tail(order), done)
    ELSE {order[1]}

Range(f) == {f[i] : i \in DOMAIN f}

NextCompleted(c) ==
    LET got == Range(c.collected)
    IN  IF c.pre \ got # {} THEN c.pre \ got
        ELSE FirstNotIn(c.order, got)

\* ------------------------------------------------------------- Python floats
\* A float is held as a whole number of units of 2^-FracBits.  The floats of
\* the format are the numbers of at most Precision significant bits (the
\* build's doubles have 53); every operation gives the float nearest to the
\* exact result, the even one of two that are equally near.
Unit == 2^FracBits

RECURSIVE BitLength(_)
BitLength(n) == IF n = 0 THEN 0 ELSE 1 + BitLength(n \div 2)

\* The whole number nearest to q + rem / den, the even one of two that are
\* equally near.
Nearest(q, rem, den) ==
    q + (IF 2 * rem > den \/ (2 * rem = den /\ q % 2 = 1) THEN 1 ELSE 0)

\* The float nearest to A / D units, for A >= 0 and D > 0, that is a
\* multiple of 2^drop units.
RoundTo(A, D, drop) ==
    Nearest(A \div (D * 2^drop), A % (D * 2^drop), D * 2^drop) * 2^drop

\* The float nearest to the fraction N / D of a unit, for D > 0: of the bits
\* of the whole part those after the first Precision are dropped.
RoundRat(N, D) ==
    IF N < 0
    THEN -RoundTo(-N, D, Max(0, BitLength((-N) \div D) - Precision))
    ELSE RoundTo(N, D, Max(0, BitLength(N \div D) - Precision))

\* The float a decimal literal num/den of the source denotes.
Lit(num, den) == RoundRat(num * Unit, den)

FAdd(a, b) == RoundRat(a + b, 1)
FSub(a, b) == RoundRat(a - b, 1)
FMul(a, b) == RoundRat(a * b, Unit)
\* a / n for a whole number n
FDivInt(a, n) == RoundRat(a, n)

\* The whole part of the square root of Y.
ISqrt(Y) == CHOOSE q \in 0..(2^Precision) : q * q <= Y /\ Y < (q + 1) * (q + 1)

\* The whole number nearest to the square root of Y + frac, q being its
\* whole part and frac below 1 (a root is never half way between two).
NearestRoot(Y, q, above_quarter) ==
    q + (IF Y > q * q + q \/ (Y = q * q + q /\ above_quarter) THEN 1 ELSE 0)

\* The float nearest to the square root of X / Unit units that is a
\* multiple of 2^drop units.
RootTo(X, drop) ==
    NearestRoot(X \div 4^drop, ISqrt(X \div 4^drop),
                4 * (X % 4^drop) > 4^drop) * 2^drop

\* The float nearest to the square root of a, for a >= 0.
FSqrt(a) ==
    RootTo(a * Unit, Max(0, (BitLength(a * Unit) + 1) \div 2 - Precision))

\* The mean of the squares of three distances.
MeanSquare(dx, dy, dz) ==
    FDivInt(FAdd(FAdd(FMul(dx, dx), FMul(dy, dy)), FMul(dz, dz)), 3)

\* The root of the mean of the squared distances of x, y and z to `mean`.
Spread(x, y, z, mean) ==
    FSqrt(MeanSquare(FSub(x, mean), FSub(y, mean), FSub(z, mean)))

\* np.std([x, y, z])
Std(x, y, z) == Spread(x, y, z, FDivInt(FAdd(FAdd(x, y), z), 3))

\* -------------------------------------------- models/architecture_selector.py
\* ArchitectureSelector.__init__: the fields of a selector.
NewSelector ==
    [saturation_threshold |-> Lit(45, 100),
     saturation_beta |-> -Lit(408, 1000),
     architecture_modifiers |->
         [single |-> [base |-> Lit(1, 1), sequential_bonus |-> Lit(3, 10),
                      simple_task_bonus |-> Lit(2, 10)],
          independent |-> [base |-> Lit(7, 10),
                           error_amplification |-> -Lit(172, 1000),
                           parallel_bonus |-> Lit(4, 10)],
          centralized |-> [base |-> Lit(9, 10),
                           error_amplification |-> -Lit(44, 1000),
                           parallel_bonus |-> Lit(809, 1000),
                           overhead_penalty |-> -Lit(2, 10)],
          decentralized |-> [base |-> Lit(85, 100),
                             dynamic_bonus |-> Lit(92, 1000),
                             coordination_cost |-> -Lit(15, 100)],
          hybrid |-> [base |-> Lit(88, 100), complex_bonus |-> Lit(3, 10),
                      balanced_bonus |-> Lit(15, 100)]]]

\* The architectures in the order select_architecture and predict_all_scores
\* list them.
Architectures ==
    <<"single", "independent", "centralized", "decentralized", "hybrid">>

\* Whether _calculate_architecture_score adds the saturation penalty.
Saturated(selector, architecture, capabilities) ==
    /\ capabilities.baseline_accuracy > selector.saturation_threshold
    /\ architecture # "single"

\* A variant of BudgetPenalised that spares no architecture (C30 tells it
\* from the code).
BudgetPenalisedAll(architecture, capabilities) ==
    capabilities.token_budget < 1000

\* Whether _calculate_architecture_score takes the low-budget penalty off.
BudgetPenalised(architecture, capabilities) ==
    capabilities.token_budget < 1000 /\ architecture # "single"

\* _calculate_architecture_score, "Apply capability saturation effect": the
\* score after it.
SaturationEffect(selector, architecture, capabilities, score) ==
    IF Saturated(selector, architecture, capabilities)
    THEN FAdd(score,
              FMul(selector.saturation_beta,
                   FSub(capabilities.baseline_accuracy,
                        selector.saturation_threshold)))
    ELSE score

\* The branches of "Architecture-specific scoring".
SingleScoring(mods, task, score) ==
    IF task.complexity < Lit(5, 10)
    THEN FAdd(FAdd(score, FMul(mods.sequential_bonus, task.sequential)),
              mods.simple_task_bonus)
    ELSE FAdd(score, FMul(mods.sequential_bonus, task.sequential))

IndependentScoring(mods, task, capabilities, score) ==
    FAdd(FAdd(score, FMul(mods.parallel_bonus, task.parallelizable)),
         FMul(mods.error_amplification,
              FSub(Lit(1, 1), capabilities.baseline_accuracy)))

CentralizedScoring(mods, task, score) ==
    FAdd(FAdd(FAdd(score, FMul(mods.parallel_bonus, task.parallelizable)),
              FMul(mods.overhead_penalty, task.tool_intensive)),
         mods.error_amplification)

DecentralizedScoring(mods, task, score) ==
    IF task.sequential > Lit(6, 10)
    THEN FSub(FAdd(FAdd(score, FMul(mods.dynamic_bonus, task.dynamic)),
                   FMul(mods.coordination_cost,
                        FSub(Lit(1, 1), task.parallelizable))),
              Lit(4, 10))
    ELSE FAdd(FAdd(score, FMul(mods.dynamic_bonus, task.dynamic)),
              FMul(mods.coordination_cost,
                   FSub(Lit(1, 1), task.parallelizable)))

HybridScoring(mods, task, score) ==
    FAdd(FAdd(score, FMul(mods.complex_bonus, task.complexity)),
         FMul(mods.balanced_bonus,
              FSub(Lit(1, 1),
                   Std(task.parallelizable, task.dynamic, task.sequential))))

SpecificScoring(mods, architecture, task, capabilities, score) ==
    IF architecture = "single" THEN SingleScoring(mods, task, score)
    ELSE IF architecture = "independent"
    THEN IndependentScoring(mods, task, capabilities, score)
    ELSE IF architecture = "centralized"
    THEN CentralizedScoring(mods, task, score)
    ELSE IF architecture = "decentralized"
    THEN DecentralizedScoring(mods, task, score)
    ELSE HybridScoring(mods, task, score)

\* "Token budget considerations": the score after them.
BudgetEffect(architecture, capabilities, score) ==
    IF BudgetPenalised(architecture, capabilities)
    THEN FSub(score, Lit(2, 10)) ELSE score

\* "Model capability boost": the score returned, and what it was before
\* the boost.
CapabilityBoost(capabilities, score) ==
    [unscaled |-> score,
     score |-> FMul(score, FAdd(Lit(8, 10),
                                FMul(Lit(4, 10),
                                     capabilities.model_capability)))]

\* ArchitectureSelector._calculate_architecture_score: the score, and what
\* it was before the scaling by the model's capability.
CalculateArchitectureScore(selector, architecture, task, capabilities) ==
    CapabilityBoost(capabilities,
        BudgetEffect(architecture, capabilities,
            SpecificScoring(selector.architecture_modifiers[architecture],
                architecture, task, capabilities,
                SaturationEffect(selector, architecture, capabilities,
                    selector.architecture_modifiers[architecture].base))))

\* The dict of the scores of the five architectures both methods build.
ScoresOf(selector, task, capabilities) ==
    [a \in {Architectures[i] : i \in DOMAIN Architectures} |->
        CalculateArchitectureScore(selector, a, task, capabilities).score]

RECURSIVE MaxLast(_, _, _)
\* A variant of MaxFirst in which a later item wins with an equal score
\* too (C28 tells it from the code).
MaxLast(scores, i, best) ==
    IF i > Len(Architectures) THEN best
    ELSE MaxLast(scores, i + 1,
                 IF scores[Architectures[i]] >= scores[best]
                 THEN Architectures[i] ELSE best)

RECURSIVE MaxFirst(_, _, _)
\* max(scores.items(), key=lambda x: x[1])[0] from the i-th item on, `best`
\* being the best of the items before: a later item wins only with a greater
\* score.
MaxFirst(scores, i, best) ==
    IF i > Len(Architectures) THEN best
    ELSE MaxFirst(scores, i + 1,
                  IF scores[Architectures[i]] > scores[best]
                  THEN Architectures[i] ELSE best)

\* A variant of SelectArchitecture that moves the saturation threshold to
\* the baseline accuracy of the call (C27 tells it from the code).
SelectArchitectureAdaptive(selector, task, capabilities) ==
    [selector |-> [selector EXCEPT !.saturation_threshold =
                                       capabilities.baseline_accuracy],
     architecture |-> MaxFirst(ScoresOf(selector, task, capabilities), 2,
                               Architectures[1])]

\* ArchitectureSelector.select_architecture: the selector afterwards (the
\* method assigns no field) and the architecture returned.
SelectArchitecture(selector, task, capabilities) ==
    [selector |-> selector,
     architecture |-> MaxFirst(ScoresOf(selector, task, capabilities), 2,
                               Architectures[1])]

\* ArchitectureSelector.predict_all_scores: the selector afterwards and the
\* dict returned (with the scores before their scaling beside it).
PredictAllScores(selector, task, capabilities) ==
    [selector |-> selector,
     scores |-> ScoresOf(selector, task, capabilities),
     unscaled |->
         [a \in {Architectures[i] : i \in DOMAIN Architectures} |->
             CalculateArchitectureScore(selector, a, task, capabilities).unscaled]]

\* ------------------------------------------------------------------- state
VARIABLES
    arch,             \* the class of the instance
    cap,              \* self.capabilities
    num_agents,       \* self.num_agents (0 for a SingleAgent)
    team_size,        \* self.team_size (Hybrid)
    self,             \* the instance's own counters and message log
    agents,           \* the child agents (Hybrid: team by team)
    global_state,     \* self.global_state (Centralized, Hybrid)
    shared_messages,  \* self.shared_messages (Decentralized)
    team_messages,    \* self.team_messages (Hybrid)
    calls,            \* the number of execute_task calls made so far
    ok_calls,         \* those that returned success since the last reset
    ind,              \* the execute_task call an Independent has in flight
    last,             \* the execute_task call that has just returned
    selector,         \* the fields of the ArchitectureSelector
    inputs,           \* the inputs of the calls a caller makes on it, in order
    answers           \* the calls made on the selector and their results

agent_vars == <<arch, cap, num_agents, team_size, self, agents, global_state,
                shared_messages, team_messages, calls, ok_calls, ind, last>>

vars == <<agent_vars, selector, inputs, answers>>

Archs == {"single", "independent", "centralized", "decentralized", "hybrid"}

\* The capabilities an instance is built with: none (every default
\* applies) or those of the tests.
TestCaps ==
    [tokens_per_task |-> 10, coordination_tokens_per_task |-> 5,
     communication_tokens_per_message |-> 2, coordination_rounds |-> 1,
     strategy_tokens |-> 5, team_comm_tokens |-> 2, aggregation_tokens |-> 5]

Caps == {EmptyDict, TestCaps}

\* A configuration without validation: a Decentralized that makes no round.
NoRoundsCaps == [coordination_rounds |-> 0]

\* The capabilities an instance of the class a is built with.
CapsOf(a) == IF a = "decentralized" THEN Caps \cup {NoRoundsCaps} ELSE Caps

\* The contexts a caller passes: none, an empty dict, a dict with an entry.
Contexts == {NoContext, Ctx(EmptyDict), Ctx([k |-> Str("v")])}

\* The one passed to a composite that runs its children in turn: a dict
\* with a task that is callable or a sequence, none with the others.
ContextFor(task) ==
    IF Callable(task) \/ IsSequence(task) THEN Ctx([k |-> Str("v")])
    ELSE NoContext

\* A task that is data, and the i-th item of a sequence task.
Data == Str("d")
Item(i) == [tag |-> "item", i |-> i]

\* The sequence tasks: up to MaxLen items, which are the data Item(1),
\* Item(2), ... or are all callables.
SequenceTasks ==
    { List([i \in 1..len |-> Item(i)]) : len \in 0..MaxLen }
    \cup { List([i \in 1..len |-> Fn("script")]) : len \in 1..MaxLen }

\* What the j-th invocation of a "script" callable does: it raises, it
\* returns the number j, (where a class treats None apart) it returns
\* None, or (where the context holds a global_state that is not a copy) it
\* empties that dict, or leaves a note in it, and returns the number j.
ScriptKinds == IF arch = "single" THEN {"raise", "ret", "none"}
               ELSE IF arch = "hybrid"
                    THEN {"raise", "ret", "none", "note", "echo"}
               ELSE IF arch = "centralized" THEN {"raise", "ret", "clear"}
               ELSE {"raise", "ret"}
OutcomeOf(kind, j) ==
    IF kind = "raise" THEN Raise(j)
    ELSE IF kind = "ret" THEN Return(Num(j))
    ELSE IF kind = "clear" THEN ClearAndReturn(Num(j))
    ELSE IF kind = "note" THEN NoteAndReturn(Num(j), calls + 1)
    ELSE IF kind = "echo" THEN EchoAndReturn(Num(j))
    ELSE Return(None)

\* The scripts of a Hybrid call: a note is left by the first invocation of
\* the call, or by none, and a message is appended by the second, or by
\* none.
HybridScripts(live) ==
    {f \in [live -> ScriptKinds] :
        \A j \in live : /\ f[j] = "note" => j = 1
                        /\ f[j] = "echo" => j = 2}

\* The outcomes of the executions 1..k of a call, those in `live` drawn by f.
Script(f, live, k) ==
    [j \in 1..k |-> IF j \in live THEN OutcomeOf(f[j], j) ELSE Return(None)]

\* The child executions made so far on the instance; a call is made only
\* while its executions fit into MaxExecs.
RECURSIVE Executions(_)
Executions(as) ==
    IF as = <<>> THEN 0
    ELSE as[1].tasks_completed + as[1].errors_count + Executions(Tail(as))

Fits(k) == Executions(agents) + k <= MaxExecs

\* The calls made on the instance stay within MaxCalls: the execute_task
\* calls so far and the messages sent or received since the last reset.
Room == calls + Len(self.message_history) < MaxCalls

\* The messages a caller sends from the instance or hands to it.
Mail == {Message(sender, Str("msg"), "info", EmptyDict, 0) :
             sender \in {"self", "other"}}

NoCall == [done |-> FALSE]
NoInd == [phase |-> "idle"]

\* The number of children the constructor creates.
NumChildren(a, n, size) ==
    IF a = "single" THEN 0
    ELSE IF a = "hybrid" THEN NumTeams(n, size) * size
    ELSE n

\* The instance of test_hybrid_agent: four workers in teams of two.
TestNumAgents == 4
TestTeamSize == 2

\* The sizes <<num_agents, team_size>> an instance is built with: the small
\* ones, and for a Hybrid the one of test_hybrid_agent as well.
Sizes(a) ==
    IF a = "single" THEN {<<0, 1>>}
    ELSE IF a = "hybrid"
         THEN ((1..MaxAgents) \X (1..MaxTeamSize))
                  \cup {<<TestNumAgents, TestTeamSize>>}
         ELSE (1..MaxAgents) \X {1}

AgentInit ==
    /\ arch \in Archs
    /\ cap \in CapsOf(arch)
    /\ \E size \in Sizes(arch) : num_agents = size[1] /\ team_size = size[2]
    /\ self = NewAgent
    /\ agents = [i \in 1..NumChildren(arch, num_agents, team_size) |-> NewAgent]
    /\ global_state = EmptyDict
    /\ shared_messages = <<>>
    /\ team_messages = [t \in 1..(IF arch = "hybrid"
                                  THEN NumTeams(num_agents, team_size) ELSE 0)
                          |-> <<>>]
    /\ calls = 0
    /\ ok_calls = 0
    /\ ind = NoInd
    /\ last = NoCall

\* An instance, beside a selector nobody calls.
Init ==
    /\ AgentInit
    /\ selector = NewSelector
    /\ inputs = <<>>
    /\ answers = <<>>

\* The composite as the operators of the architectures take it.
Composite ==
    [self |-> self, agents |-> agents, global_state |-> global_state,
     shared_messages |-> shared_messages, team_messages |-> team_messages,
     results |-> <<>>, handed |-> <<>>, assigned |-> <<>>,
     member_results |-> <<>>, team_results |-> <<>>, team_result |-> None,
     buffers |-> <<>>, result |-> None]

\* The record of a call that has returned: its inputs, the instance before
\* it, what it returned and what it did on the way (the results of its
\* units, the contexts it handed out, in `assigned` the task each unit
\* was given: a worker, a peer, a team, and in `buffers` the team's
\* message buffer as each member's task left it).
Returned(task, context, st, invoked) ==
    [done |-> TRUE, call |-> calls + 1, task |-> task, context |-> context,
     before |-> [self |-> self, agents |-> agents],
     result |-> st.result, results |-> st.results, handed |-> st.handed,
     assigned |-> st.assigned, member_results |-> st.member_results,
     buffers |-> st.buffers,
     invoked |-> invoked]

\* The instance after a call of a composite that runs its children in turn.
Return_(task, context, st) ==
    /\ self' = st.self
    /\ agents' = st.agents
    /\ global_state' = st.global_state
    /\ shared_messages' = st.shared_messages
    /\ team_messages' = st.team_messages
    /\ calls' = calls + 1
    /\ ok_calls' = ok_calls + (IF st.result.success THEN 1 ELSE 0)
    /\ last' = Returned(task, context, st, <<>>)
    /\ UNCHANGED <<selector, inputs, answers, arch, cap, num_agents, team_size, ind>>

\* The executions of a call that invoke a callable.
CentralizedLive(task) ==
    LET a == DecomposeTask(task, num_agents)
    IN  {j \in 1..Len(a) : Callable(a[j].subtask)}
DecentralizedLive(task) ==
    IF Callable(task) THEN 1..(CoordinationRounds(cap) * num_agents) ELSE {}
HybridLive(task) == IF Callable(task) THEN 1..team_size ELSE {}

\* The tasks each class is called with.
SingleTasks == {Fn("script"), Fn("marker"), Data, List(<<Item(1)>>)}
IndependentCalls ==
    {<<Fn("script"), Ctx([k |-> Str("v")])>>, <<Data, NoContext>>,
     <<Fn("marker"), Ctx(EmptyDict)>>, <<Fn("marker"), Ctx([k |-> Str("v")])>>}
CentralizedTasks == {Fn("script"), Data} \cup SequenceTasks
DecentralizedTasks == {Fn("script"), Data}
HybridTasks == {Fn("script"), Data, None} \cup SequenceTasks

\* SingleAgent.execute_task(task, context)
SingleExecuteTask ==
    /\ arch = "single"
    /\ Room
    /\ \E task \in SingleTasks, context \in Contexts, kind \in ScriptKinds :
          /\ (Callable(task) /\ task.beh = "script") \/ kind = "ret"
          /\ LET r == SingleExec(self, 0, cap, task, context,
                                 OutcomeOf(kind, calls + 1))
             IN  /\ self' = r.agent
                 /\ ok_calls' = ok_calls + (IF r.result.success THEN 1 ELSE 0)
                 /\ last' = Returned(task, context,
                                     [Composite EXCEPT !.result = r.result,
                                                       !.results = <<r.result>>],
                                     r.invoked)
    /\ calls' = calls + 1
    /\ UNCHANGED <<selector, inputs, answers, arch, cap, num_agents, team_size, agents, global_state,
                   shared_messages, team_messages, ind>>

\* CentralizedMultiAgent.execute_task(task, context)
CentralizedExecuteTask ==
    /\ arch = "centralized"
    /\ Room
    /\ \E task \in CentralizedTasks :
          \E f \in [CentralizedLive(task) -> ScriptKinds] :
              /\ Fits(Len(DecomposeTask(task, num_agents)))
              /\ Return_(task, ContextFor(task),
                  CentralizedExecute(Composite, cap, num_agents, task,
                      ContextFor(task),
                      Script(f, CentralizedLive(task),
                             Len(DecomposeTask(task, num_agents))),
                      calls + 1))

\* DecentralizedMultiAgent.execute_task(task, context)
DecentralizedExecuteTask ==
    /\ arch = "decentralized"
    /\ Room
    /\ Fits(CoordinationRounds(cap) * num_agents)
    /\ \E task \in DecentralizedTasks :
          \E f \in [DecentralizedLive(task) -> ScriptKinds] :
              Return_(task, ContextFor(task),
                  DecentralizedExecute(Composite, cap, num_agents, task,
                      ContextFor(task),
                      Script(f, DecentralizedLive(task),
                             CoordinationRounds(cap) * num_agents),
                      calls + 1))

\* HybridMultiAgent.execute_task(task, context)
HybridExecuteTask ==
    /\ arch = "hybrid"
    /\ Room
    /\ \E task \in HybridTasks :
          \E f \in HybridScripts(HybridLive(task)) :
              /\ Fits(Len(agents))
              /\ Return_(task, ContextFor(task),
                  HybridExecute(Composite, cap, num_agents, team_size, task,
                      ContextFor(task), Script(f, HybridLive(task), Len(agents)),
                      calls + 1))

\* IndependentMultiAgent.execute_task, up to the submission of the task to
\* every child: the call's local variables.  `context` is the caller's dict,
\* which every child is given.
IndependentSubmit ==
    /\ arch = "independent"
    /\ ind.phase = "idle"
    /\ Room
    /\ Fits(num_agents)
    /\ \E c \in IndependentCalls :
         ind' = [phase |-> "submitted", task |-> c[1], given |-> c[2],
               context |-> c[2], done |-> {}, order |-> <<>>,
               res |-> EmptyDict, invoked |-> EmptyDict, pre |-> {},
               collected |-> <<>>, results |-> <<>>, total_tokens |-> 0,
               errors |-> <<>>, before |-> [self |-> self, agents |-> agents]]
    /\ last' = NoCall
    /\ UNCHANGED <<selector, inputs, answers, arch, cap, num_agents, team_size, self, agents, global_state,
                   shared_messages, team_messages, calls, ok_calls>>

\* A pool thread runs agent.execute_task(task, context) of child i.
IndependentChildRun(i) ==
    /\ arch = "independent"
    /\ ind.phase \in {"submitted", "collecting"}
    /\ i \notin ind.done
    /\ \E kind \in ScriptKinds :
          /\ (Callable(ind.task) /\ ind.task.beh = "script") \/ kind = "ret"
          /\ LET r == SingleExec(agents[i + 1], i, cap, ind.task, ind.context,
                                 OutcomeOf(kind, i + 1))
             IN  /\ agents' = [agents EXCEPT ![i + 1] = r.agent]
                 /\ ind' = [ind EXCEPT
                               !.context = r.context,
                               !.done = @ \cup {i},
                               !.order = Append(@, i),
                               !.res = Merge(@, [c \in {i} |-> r.result]),
                               !.invoked = Merge(@, [c \in {i} |-> r.invoked])]
    /\ UNCHANGED <<selector, inputs, answers, arch, cap, num_agents, team_size, self, global_state,
                   shared_messages, team_messages, calls, ok_calls, last>>

\* The main thread calls as_completed(futures): the futures already
\* finished are set apart.
IndependentAsCompleted ==
    /\ arch = "independent"
    /\ ind.phase = "submitted"
    /\ ind' = [ind EXCEPT !.phase = "collecting", !.pre = ind.done]
    /\ UNCHANGED <<selector, inputs, answers, arch, cap, num_agents, team_size, self, agents, global_state,
                   shared_messages, team_messages, calls, ok_calls, last>>

\* The main thread takes the future of child i from as_completed.  (The
\* except branch of the loop is not modelled: future.result() raises only
\* if execute_task of the child does, and SingleAgent returns a failure
\* for every Exception of the task.)
IndependentCollect(i) ==
    /\ arch = "independent"
    /\ ind.phase = "collecting"
    /\ i \in NextCompleted(ind)
    /\ LET c == CollectOne(ind, self, i, ind.res[i])
       IN  /\ ind' = c.call
           /\ self' = c.self
    /\ UNCHANGED <<selector, inputs, answers, arch, cap, num_agents, team_size, agents, global_state,
                   shared_messages, team_messages, calls, ok_calls, last>>

\* A variant of IndependentReturn that returns as soon as one future was
\* taken (C10 tells it from the code).
IndependentReturnEarly ==
    /\ arch = "independent"
    /\ ind.phase = "collecting"
    /\ Len(ind.collected) >= 1
    /\ LET result == IndependentResult(ind.results, ind.total_tokens,
                                       ind.errors, num_agents)
       IN  /\ self' = [self EXCEPT !.tokens_used = @ + ind.total_tokens]
           /\ ok_calls' = ok_calls + (IF result.success THEN 1 ELSE 0)
           /\ last' = [done |-> TRUE, call |-> calls + 1, task |-> ind.task,
                       context |-> ind.given, before |-> ind.before,
                       result |-> result, results |-> ind.results,
                       handed |-> <<>>, member_results |-> <<>>,
                       invoked |-> ind.invoked, order |-> ind.order,
                       collected |-> ind.collected, pre |-> ind.pre,
                       res |-> ind.res]
    /\ ind' = NoInd
    /\ calls' = calls + 1
    /\ UNCHANGED <<selector, inputs, answers, arch, cap, num_agents, team_size, agents, global_state,
                   shared_messages, team_messages>>

\* Every future was taken: the pool is shut down, the tokens are added and
\* the result is returned.
IndependentReturn ==
    /\ arch = "independent"
    /\ ind.phase = "collecting"
    /\ Len(ind.collected) = num_agents
    /\ LET result == IndependentResult(ind.results, ind.total_tokens,
                                       ind.errors, num_agents)
       IN  /\ self' = [self EXCEPT !.tokens_used = @ + ind.total_tokens]
           /\ ok_calls' = ok_calls + (IF result.success THEN 1 ELSE 0)
           /\ last' = [done |-> TRUE, call |-> calls + 1, task |-> ind.task,
                       context |-> ind.given, before |-> ind.before,
                       result |-> result, results |-> ind.results,
                       handed |-> <<>>, member_results |-> <<>>,
                       invoked |-> ind.invoked, order |-> ind.order,
                       collected |-> ind.collected, pre |-> ind.pre,
                       res |-> ind.res]
    /\ ind' = NoInd
    /\ calls' = calls + 1
    /\ UNCHANGED <<selector, inputs, answers, arch, cap, num_agents, team_size, agents, global_state,
                   shared_messages, team_messages>>

\* total_agent_tokens of get_metrics of a composite: the tokens_used of the
\* children, summed.
RECURSIVE TotalAgentTokens(_)
TotalAgentTokens(children) ==
    IF children = <<>> THEN 0
    ELSE children[1].tokens_used + TotalAgentTokens(Tail(children))

\* A variant of ResetMetricsCall that resets the children too (C34 tells it
\* from the code).
ResetMetricsCallDeep ==
    /\ ind.phase = "idle"
    /\ self' = ResetMetrics(self)
    /\ agents' = [i \in DOMAIN agents |-> ResetMetrics(agents[i])]
    /\ ok_calls' = 0
    /\ last' = NoCall
    /\ UNCHANGED <<selector, inputs, answers, arch, cap, num_agents, team_size,
                   global_state, shared_messages, team_messages, calls, ind>>

\* Agent.reset_metrics on the instance (no class overrides it).
ResetMetricsCall ==
    /\ ind.phase = "idle"
    /\ self' = ResetMetrics(self)
    /\ ok_calls' = 0
    /\ last' = NoCall
    /\ UNCHANGED <<selector, inputs, answers, arch, cap, num_agents, team_size, agents, global_state,
                   shared_messages, team_messages, calls, ind>>

\* Agent.send_message(message) on the instance
SendMessageCall ==
    /\ ind.phase = "idle"
    /\ Room
    /\ \E message \in Mail : self' = SendMessage(self, message)
    /\ last' = NoCall
    /\ UNCHANGED <<selector, inputs, answers, arch, cap, num_agents, team_size, agents, global_state,
                   shared_messages, team_messages, calls, ok_calls, ind>>

\* Agent.receive_message(message) on the instance
ReceiveMessageCall ==
    /\ ind.phase = "idle"
    /\ Room
    /\ \E message \in Mail : self' = ReceiveMessage(self, message)
    /\ last' = NoCall
    /\ UNCHANGED <<selector, inputs, answers, arch, cap, num_agents, team_size, agents, global_state,
                   shared_messages, team_messages, calls, ok_calls, ind>>

\* --------------------------------------------------- calls on the selector
\* A TaskCharacteristics of the given tenths.
Profile(parallelizable, dynamic, sequential, tool_intensive, complexity) ==
    [parallelizable |-> Lit(parallelizable, 10), dynamic |-> Lit(dynamic, 10),
     sequential |-> Lit(sequential, 10),
     tool_intensive |-> Lit(tool_intensive, 10),
     complexity |-> Lit(complexity, 10)]

\* The tasks of test_select_sequential_task and test_capability_saturation,
\* and a task that is half sequential and of middling complexity.
TaskProfiles ==
    {Profile(1, 2, 9, 3, 5), Profile(5, 4, 3, 4, 4), Profile(0, 0, 5, 0, 5)}

\* The float next above the float a > 0.
NextUp(a) == a + 2^Max(0, BitLength(a) - Precision)

\* The baseline accuracies: 0.30 (below the saturation threshold), 7/8, the
\* float next above it, and 1.
Accuracies == {Lit(3, 10), Lit(7, 8), NextUp(Lit(7, 8)), Lit(1, 1)}

\* The AgentCapabilities a caller passes: the budgets of
\* test_token_budget_effect, the least and the greatest model capability.
AgentCapabilities ==
    [baseline_accuracy : Accuracies, token_budget : {500, 10000},
     model_capability : {Lit(0, 1), Lit(1, 1)}]

\* What a caller passes to a method of the selector.
Inputs == [task : TaskProfiles, capabilities : AgentCapabilities]

\* The inputs of the next call.
NextInput == inputs[Len(answers) + 1]

\* ArchitectureSelector.select_architecture(task, capabilities)
SelectArchitectureCall ==
    /\ Len(answers) < Len(inputs)
    /\ LET r == SelectArchitecture(selector, NextInput.task,
                                   NextInput.capabilities)
       IN  /\ selector' = r.selector
           /\ answers' = Append(answers,
                  [op |-> "select", task |-> NextInput.task,
                   capabilities |-> NextInput.capabilities,
                   architecture |-> r.architecture])
    /\ UNCHANGED <<agent_vars, inputs>>

\* ArchitectureSelector.predict_all_scores(task, capabilities)
PredictAllScoresCall ==
    /\ Len(answers) < Len(inputs)
    /\ LET r == PredictAllScores(selector, NextInput.task,
                                 NextInput.capabilities)
       IN  /\ selector' = r.selector
           /\ answers' = Append(answers,
                  [op |-> "predict", task |-> NextInput.task,
                   capabilities |-> NextInput.capabilities,
                   scores |-> r.scores, unscaled |-> r.unscaled])
    /\ UNCHANGED <<agent_vars, inputs>>

Next ==
    \/ SingleExecuteTask
    \/ IndependentSubmit
    \/ \E i \in 0..(num_agents - 1) : IndependentChildRun(i)
    \/ IndependentAsCompleted
    \/ \E i \in 0..(num_agents - 1) : IndependentCollect(i)
    \/ IndependentReturn
    \/ CentralizedExecuteTask
    \/ DecentralizedExecuteTask
    \/ HybridExecuteTask
    \/ SendMessageCall
    \/ ReceiveMessageCall
    \/ ResetMetricsCall

Spec == Init /\ [][Next]_vars

\* Two calls on a selector, whose inputs the caller chooses, beside an
\* instance nobody calls.
SelectorInit ==
    /\ AgentInit /\ arch = "single" /\ cap = EmptyDict
    /\ selector = NewSelector
    /\ inputs \in Inputs \X Inputs
    /\ answers = <<>>

SelectorNext ==
    \/ SelectArchitectureCall
    \/ PredictAllScoresCall

SelectorSpec == SelectorInit /\ [][SelectorNext]_vars

\* ================================================================== claims
\* The composites that run their children in turn.
Sequential == {"centralized", "decentralized", "hybrid"}

\* The results of the child executions of the call that has returned.
ChildResults == IF arch = "hybrid" THEN last.member_results ELSE last.results

\* The tokens the instance itself spent during the call that has returned.
SpentByCall == self.tokens_used - last.before.self.tokens_used

\* C1: the tokens_used of the result of every execute call of a
\* Centralized, Decentralized or Hybrid composite, a second or later call
\* included, is the coordination tokens the composite spent during that
\* call plus the tokens_used of the child executions of that call.
C1_TokensOfTheCall ==
    (last.done /\ arch \in Sequential) =>
        last.result.tokens_used = SpentByCall + SumTokens(ChildResults)

\* The entries of global_state and the messages a context shows.
StampsOf(context) ==
    (IF "global_state" \in DOMAIN context
     THEN {context.global_state[k].written : k \in DOMAIN context.global_state}
     ELSE {})
    \cup (IF "peer_messages" \in DOMAIN context
          THEN {m.written : m \in Range(context.peer_messages)} ELSE {})
    \cup (IF "team_messages" \in DOMAIN context
          THEN {m.written : m \in Range(context.team_messages)} ELSE {})

\* Those the instance holds.
StampsHeld ==
    {global_state[k].written : k \in DOMAIN global_state}
    \cup {m.written : m \in Range(shared_messages)}
    \cup UNION {{m.written : m \in Range(team_messages[t])} :
                  t \in DOMAIN team_messages}

\* C2: every execute call of a Centralized, Decentralized or Hybrid
\* composite starts from an empty global_state and empty message buffers:
\* the first context handed to a worker shows no entry and no message, every
\* entry and message a context of the call shows was written during that
\* call, and so was everything the composite holds when the call returns.
C2_TransientStateReset ==
    (last.done /\ arch \in Sequential) =>
        /\ last.handed # <<>> => StampsOf(last.handed[1]) = {}
        /\ \A i \in DOMAIN last.handed : StampsOf(last.handed[i]) \subseteq {last.call}
        /\ StampsHeld \subseteq {last.call}

\* C2's case: a second call of a Decentralized whose first call left a
\* message in the buffer, and whose second peer is shown a message.
C2_Witness ==
    /\ last.done /\ arch = "decentralized" /\ last.call = 2
    /\ last.before.agents[1].message_history # <<>>
    /\ Len(last.handed) >= 2
    /\ last.handed[2].peer_messages # <<>>

\* The units of the call that has returned whose failure makes it fail: the
\* children (Independent), the pooled results (Decentralized), the subtasks
\* (Centralized), the teams that were given a task (Hybrid).
UnitResults ==
    IF arch = "hybrid"
    THEN SelectSeq(last.results, LAMBDA r : "status" \notin DOMAIN r.metadata)
    ELSE last.results

\* C3: a composite's execute returns success=false exactly when every child
\* execution, subtask or team of the call failed, and then with an error;
\* when one of them succeeded the result is success=true.
C3_FailsIffAllFailed ==
    (last.done /\ arch # "single") =>
        /\ ~last.result.success <=> (\A i \in DOMAIN UnitResults : ~UnitResults[i].success)
        /\ ~last.result.success => last.result.error # None

\* The per-task cost the configuration of the instance gives.
T == IF "tokens_per_task" \in DOMAIN cap THEN cap.tokens_per_task ELSE 100

\* The dict a task is to be invoked with when the caller passes `context`.
GivenMap(context) == IF context.isNone THEN EmptyDict ELSE context.map

\* The call that has returned was one of a SingleAgent on its success path:
\* the task is not callable, or its invocation returned.
SingleSucceeded ==
    /\ arch = "single" /\ last.done
    /\ Callable(last.task) => (last.invoked # <<>> /\ ~last.invoked[1].raised)

\* C4: on its success path a SingleAgent calls a callable task once, with
\* the given context (an empty dict when none is given), and the output is
\* what it returned; a task that is not callable is the output, unchanged.
\* The call returns success, adds 1 to tasks_completed and tokens_per_task
\* (100 unless configured) to tokens_used, reports that cost in the result
\* and leaves errors_count alone; after k successful calls tokens_used is
\* k * tokens_per_task and tasks_completed is k.
C4_SingleSuccessPath ==
    /\ arch = "single" =>
           /\ self.tokens_used = ok_calls * T
           /\ self.tasks_completed = ok_calls
    /\ SingleSucceeded =>
           /\ IF Callable(last.task)
              THEN /\ Len(last.invoked) = 1
                   /\ last.invoked[1].arg = GivenMap(last.context)
                   /\ last.result.output = last.invoked[1].ret
              ELSE /\ last.invoked = <<>>
                   /\ last.result.output = last.task
           /\ last.result.success
           /\ last.result.tokens_used = T
           /\ self.tasks_completed = last.before.self.tasks_completed + 1
           /\ self.tokens_used = last.before.self.tokens_used + T
           /\ self.errors_count = last.before.self.errors_count

\* C4's case: the second successful call, of a callable task without a
\* context, on an instance that has no tokens_per_task configured.
C4_Witness ==
    /\ SingleSucceeded /\ Callable(last.task) /\ last.context.isNone
    /\ cap = EmptyDict /\ ok_calls = 2

\* The call that has returned was one of a SingleAgent whose task raised.
SingleRaised ==
    /\ arch = "single" /\ last.done
    /\ last.invoked # <<>> /\ last.invoked[1].raised

\* C5: when the task raises, SingleAgent.execute_task returns a result
\* with success false, output None, the text of the exception as its error
\* and tokens_used 0; errors_count grows by 1 and the agent's tokens_used
\* and tasks_completed do not change.
C5_SingleFailurePath ==
    SingleRaised =>
        /\ ~last.result.success
        /\ last.result.output = None
        /\ last.result.error # None
        /\ last.result.error = ExcStr(last.invoked[1].err)
        /\ last.result.tokens_used = 0
        /\ self.errors_count = last.before.self.errors_count + 1
        /\ self.tokens_used = last.before.self.tokens_used
        /\ self.tasks_completed = last.before.self.tasks_completed

\* C5's case: the task raises on an agent that has tokens from an earlier
\* successful call.
C5_Witness ==
    SingleRaised /\ last.before.self.tokens_used > 0

\* error is set exactly in a result that reports a failure.
ErrorIffFailed(r) == (r.error # None) <=> ~r.success

\* C6: in every TaskResult an execution step produces (the result of a
\* call, the results of the children, the subtasks or the teams, the team
\* without a task included, and those of the members of the teams), error
\* is not None if and only if success is false.
C6_ErrorIffFailure ==
    /\ last.done =>
          /\ ErrorIffFailed(last.result)
          /\ \A i \in DOMAIN last.results : ErrorIffFailed(last.results[i])
          /\ \A i \in DOMAIN last.member_results :
                 ErrorIffFailed(last.member_results[i])
    /\ ind.phase # "idle" =>
          \A i \in DOMAIN ind.res : ErrorIffFailed(ind.res[i])

\* C6's case: a Hybrid call that failed although one of its teams had no
\* task (and so reported success without an error).
C6_Witness ==
    /\ arch = "hybrid" /\ last.done /\ ~last.result.success
    /\ \E i \in DOMAIN last.results : "status" \in DOMAIN last.results[i].metadata
    /\ \E i \in DOMAIN last.member_results : ~last.member_results[i].success

\* The results the children of the Independent call that has returned
\* produced, child by child.
ByChild == [i \in 1..num_agents |-> last.res[i - 1]]

\* The tokens the children's own counters grew by during that call.
RECURSIVE ChildrenSpent(_)
ChildrenSpent(i) ==
    IF i = 0 THEN 0
    ELSE (agents[i].tokens_used - last.before.agents[i].tokens_used)
         + ChildrenSpent(i - 1)

\* C7: after one execute_task call of an Independent with N children, in
\* whatever order the children completed and were collected, tokens_used has
\* grown by the sum of the tokens of the children's results, tasks_completed
\* by the number of children that succeeded and errors_count by the number
\* that failed, and these two numbers add up to N; when every child
\* succeeded the children's tokens sum to N * tokens_per_task.
C7_IndependentCounters ==
    (arch = "independent" /\ last.done) =>
        LET ok == Len(Successful(ByChild))
            ko == Len(SelectSeq(ByChild, LAMBDA r : ~r.success))
        IN  /\ self.tokens_used - last.before.self.tokens_used = SumTokens(ByChild)
            /\ self.tasks_completed - last.before.self.tasks_completed = ok
            /\ self.errors_count - last.before.self.errors_count = ko
            /\ ok + ko = num_agents
            /\ ok = num_agents =>
                   /\ SumTokens(ByChild) = num_agents * T
                   /\ ChildrenSpent(num_agents) = num_agents * T

\* C7's case: two children, one succeeded and one failed, collected in
\* another order than they completed.
C7_Witness ==
    /\ arch = "independent" /\ last.done /\ num_agents = 2
    /\ \E i, j \in 0..1 : last.res[i].success /\ ~last.res[j].success
    /\ last.collected # last.order

\* The first child of the sequence `children` whose result in res is a
\* success (-1 if there is none).
RECURSIVE FirstSuccessful(_, _)
FirstSuccessful(children, res) ==
    IF children = <<>> THEN -1
    ELSE IF res[children[1]].success THEN children[1]
    ELSE FirstSuccessful(Tail(children), res)

\* The result of the Independent call that has returned is the aggregate of
\* its children's results that takes the output of the first successful
\* child of the sequence `children`.
AggregateOf(children) ==
    IF FirstSuccessful(children, last.res) # -1
    THEN /\ last.result.success
         /\ last.result.output = last.res[FirstSuccessful(children, last.res)].output
    ELSE /\ ~last.result.success
         /\ last.result.output = None
         /\ Len(last.result.error.list) = num_agents
         /\ Range(last.result.error.list) =
                {last.res[i].error : i \in 0..(num_agents - 1)}

\* The sequence q without the members of the set s.
Without(q, s) == SelectSeq(q, LAMBDA x : x \notin s)

\* C8 as stated: the output of an Independent call is that of the
\* successful child that completed first; if every child failed the result
\* is a failure without output whose error lists every child's error.
C8_FirstCompleted ==
    (arch = "independent" /\ last.done) => AggregateOf(last.order)

\* C8: the output of an Independent call is that of the first successful
\* child in the order as_completed yields the children: those that had
\* finished when the coordinator began to wait, in no particular order, and
\* then the others in the order they completed; if every child failed the
\* result is a failure without output whose error lists every child's error.
C8_FirstCollected ==
    (arch = "independent" /\ last.done) =>
        /\ AggregateOf(last.collected)
        /\ Len(last.collected) = num_agents
        /\ Range(last.collected) = 0..(num_agents - 1)
        /\ \A i \in 1..Len(last.collected) :
               last.collected[i] \in last.pre => i <= Cardinality(last.pre)
        /\ Without(last.collected, last.pre) = Without(last.order, last.pre)

\* C8's case: the child that completed first succeeded, the other one
\* succeeded too and is the one whose output was returned.
C8_Witness ==
    /\ arch = "independent" /\ last.done /\ num_agents = 2
    /\ \A i \in 0..1 : last.res[i].success
    /\ last.res[0].output # last.res[1].output
    /\ last.result.output # last.res[last.order[1]].output

\* C9: the task of no child of an Independent call sees what the task of
\* another child wrote into its context: every child's task is invoked with
\* the context as the caller gave it.
C9_ChildrenShareNothing ==
    (arch = "independent" /\ last.done) =>
        \A i \in DOMAIN last.invoked :
            \A k \in DOMAIN last.invoked[i] :
                last.invoked[i][k].arg = GivenMap(last.context)

\* The executions child i (counted from 0) has made.
ExecutionsOf(as, i) == as[i + 1].tasks_completed + as[i + 1].errors_count

\* C10: an Independent call returns only when all N children have
\* finished, and each child executes the task exactly once per call: while
\* the call is in flight a child has made one execution if it has finished
\* and none otherwise, and when it has returned every child has made one, a
\* failed child has one more error and the composite one more for each.
C10_OnceEachThenReturn ==
    /\ (arch = "independent" /\ ind.phase # "idle") =>
           \A i \in 0..(num_agents - 1) :
               ExecutionsOf(agents, i) - ExecutionsOf(ind.before.agents, i)
                   = (IF i \in ind.done THEN 1 ELSE 0)
    /\ (arch = "independent" /\ last.done) =>
           /\ Len(last.order) = num_agents
           /\ Range(last.order) = 0..(num_agents - 1)
           /\ DOMAIN last.res = 0..(num_agents - 1)
           /\ \A i \in 0..(num_agents - 1) :
                 /\ ExecutionsOf(agents, i) - ExecutionsOf(last.before.agents, i) = 1
                 /\ Callable(last.task) => Len(last.invoked[i]) = 1
                 /\ ~last.res[i].success =>
                        agents[i + 1].errors_count =
                            last.before.agents[i + 1].errors_count + 1
           /\ self.errors_count - last.before.self.errors_count =
                  Cardinality({i \in 0..(num_agents - 1) : ~last.res[i].success})

\* C10's case: a returned call of two children of which the one that
\* finished first failed, after an earlier call on the same instance.
C10_Witness ==
    /\ arch = "independent" /\ last.done /\ num_agents = 2 /\ last.call = 2
    /\ ~last.res[last.order[1]].success
    /\ last.res[last.order[2]].success

\* The executions worker w (from 0) made during the call that has returned.
ExecutedBy(w) == ExecutionsOf(agents, w) - ExecutionsOf(last.before.agents, w)

\* C11: a Centralized call with a sequence task of length L on N workers
\* has item i (from 0) executed by worker i mod N, the items in increasing
\* i, so that worker w executes exactly the items i with i mod N = w; with
\* a task that is not a sequence only worker 0 executes it, and the counters
\* and the message log of every other worker are as before the call.
C11_RoundRobin ==
    (arch = "centralized" /\ last.done) =>
        IF IsSequence(last.task)
        THEN /\ Len(last.assigned) = Len(last.task.items)
             /\ Len(last.results) = Len(last.task.items)
             /\ \A i \in 1..Len(last.task.items) :
                    /\ last.assigned[i].unit = (i - 1) % num_agents
                    /\ last.assigned[i].task = last.task.items[i]
                    /\ last.results[i].metadata.agent_id = (i - 1) % num_agents
                    /\ ~Callable(last.task.items[i]) =>
                           last.results[i].output = last.task.items[i]
             /\ \A w \in 0..(num_agents - 1) :
                    ExecutedBy(w) =
                        Cardinality({i \in 0..(Len(last.task.items) - 1) :
                                        i % num_agents = w})
        ELSE /\ last.assigned = << [unit |-> 0, task |-> last.task] >>
             /\ Len(last.results) = 1
             /\ last.results[1].metadata.agent_id = 0
             /\ ExecutedBy(0) = 1
             /\ \A w \in 1..(num_agents - 1) :
                    agents[w + 1] = last.before.agents[w + 1]

\* C11's case: three items on two workers, so that worker 0 executes the
\* items 0 and 2, on workers that have executed before.
C11_Witness ==
    /\ arch = "centralized" /\ last.done /\ num_agents = 2 /\ last.call = 2
    /\ IsSequence(last.task) /\ Len(last.task.items) = 3
    /\ ExecutedBy(0) = 2 /\ ExecutedBy(1) = 1
    /\ ExecutionsOf(last.before.agents, 1) > 0

\* The cost per subtask the configuration of the instance gives.
CoordinationCost ==
    IF "coordination_tokens_per_task" \in DOMAIN cap
    THEN cap.coordination_tokens_per_task ELSE 10

\* C12: the Centralized coordinator spends coordination_tokens_per_task (10
\* unless configured) once for every subtask of a call, failed or not: a
\* call whose sequence task has L items spends L times that cost.  With 3
\* workers, cost 5, tokens_per_task 10 and 3 items that succeed the workers'
\* tokens total 30 and the coordination overhead is 15.
C12_CoordinationCharge ==
    (arch = "centralized" /\ last.done) =>
        /\ SpentByCall = Len(last.results) * CoordinationCost
        /\ IsSequence(last.task) =>
               SpentByCall = Len(last.task.items) * CoordinationCost
        /\ ( /\ num_agents = 3 /\ cap = TestCaps
             /\ IsSequence(last.task) /\ Len(last.task.items) = 3
             /\ \A i \in DOMAIN last.results : last.results[i].success ) =>
               /\ SumTokens(last.results) = 30
               /\ SpentByCall = 15
               /\ last.before.self.tokens_used = 0 =>
                      last.result.metadata.coordination_overhead = 15

\* C12's case: the three workers of the tests get a sequence of three
\* callables of which one raises: two workers are paid, three subtasks are
\* charged.
C12_Witness ==
    /\ arch = "centralized" /\ last.done /\ num_agents = 3 /\ cap = TestCaps
    /\ IsSequence(last.task) /\ Len(last.task.items) = 3
    /\ ~last.results[2].success
    /\ SumTokens(last.results) = 20
    /\ SpentByCall = 15

\* The outputs of the successful results of the call that has returned, in
\* the order of the results.
SuccessfulOutputs ==
    LET ok == SelectSeq(last.results, LAMBDA r : r.success)
    IN  [i \in 1..Len(ok) |-> ok[i].output]

\* C13: a Centralized call collects the outputs of its successful subtasks
\* in assignment order: one successful subtask gives that output itself,
\* two or more give the list of the outputs in that order, none gives
\* success=false with the error 'All subtasks failed'.  On success the
\* metadata counts the successful and the failed subtasks, which add up to
\* the number of subtasks.
C13_CentralizedAggregation ==
    (arch = "centralized" /\ last.done) =>
        /\ Len(SuccessfulOutputs) = 0 =>
               /\ ~last.result.success
               /\ last.result.output = None
               /\ last.result.error = Str("All subtasks failed")
        /\ Len(SuccessfulOutputs) = 1 =>
               /\ last.result.success
               /\ last.result.output = SuccessfulOutputs[1]
        /\ Len(SuccessfulOutputs) >= 2 =>
               /\ last.result.success
               /\ last.result.output = List(SuccessfulOutputs)
        /\ last.result.success =>
               /\ last.result.metadata.successful_subtasks = Len(SuccessfulOutputs)
               /\ last.result.metadata.successful_subtasks
                      + last.result.metadata.failed_subtasks = Len(last.assigned)

\* C13's case: of three subtasks the first fails and the other two
\* succeed, so that the output is the list of the outputs of the second and
\* the third.
C13_Witness ==
    /\ arch = "centralized" /\ last.done /\ Len(last.results) = 3
    /\ ~last.results[1].success
    /\ last.results[2].success /\ last.results[3].success
    /\ last.result.output = List(<<last.results[2].output, last.results[3].output>>)
    /\ last.results[2].output # last.results[3].output
    /\ last.result.metadata.failed_subtasks = 1

\* The subtasks among the first j of the call that has returned that
\* succeeded on worker w.
SucceededOn(w, j) ==
    {i \in 1..j : last.results[i].success /\ last.assigned[i].unit = w}

\* The largest member of a set of numbers that is not empty.
Latest(s) == CHOOSE i \in s : \A k \in s : k <= i

\* What the coordinator has written into global_state after the first j
\* subtasks of the call: for every worker that succeeded, the output of its
\* latest successful subtask.
CoordinatorWrote(j) ==
    [w \in {v \in 0..(num_agents - 1) : SucceededOn(v, j) # {}} |->
        [val |-> last.results[Latest(SucceededOn(w, j))].output,
         written |-> last.call]]

\* C14: the global_state of a Centralized coordinator holds what the
\* coordinator wrote and nothing else, whatever the tasks do with the
\* contexts they receive: every context shows the entries the coordinator
\* wrote for the subtasks before it, and so does global_state when the call
\* returns.
C14_GlobalStateReadOnly ==
    (arch = "centralized" /\ last.done) =>
        /\ \A j \in DOMAIN last.handed :
               last.handed[j].global_state = CoordinatorWrote(j - 1)
        /\ global_state = CoordinatorWrote(Len(last.results))

\* The message the j-th execution of the Decentralized call that has
\* returned broadcast, if it succeeded.
BroadcastOf(j) ==
    Message(last.assigned[j].unit, last.results[j].output, "task_result",
            [round |-> (j - 1) \div num_agents], last.call)

\* The messages broadcast before the j-th execution by the peers other than
\* the one that makes it, in the order they were broadcast.
OthersBefore(j) ==
    LET sent == SelectSeq([i \in 1..(j - 1) |-> i],
                    LAMBDA i : /\ last.results[i].success
                               /\ last.assigned[i].unit # last.assigned[j].unit)
    IN  [k \in 1..Len(sent) |-> BroadcastOf(sent[k])]

\* C15: in every round of a Decentralized call the peer_messages in a
\* peer's context are exactly the messages the other peers have broadcast so
\* far in this call, in broadcast order, and none of its own; the first peer
\* of round 0 is shown no message.
C15_PeerMessages ==
    (arch = "decentralized" /\ last.done) =>
        /\ \A j \in DOMAIN last.handed :
               /\ last.assigned[j].unit = (j - 1) % num_agents
               /\ last.handed[j].round = (j - 1) \div num_agents
               /\ last.handed[j].peer_messages = OthersBefore(j)
               /\ \A k \in DOMAIN last.handed[j].peer_messages :
                      last.handed[j].peer_messages[k].sender_id
                          # last.assigned[j].unit
        /\ last.handed # <<>> => last.handed[1].peer_messages = <<>>

\* C15's case: in round 1 the first of two peers, which broadcast in round
\* 0 as the other did, is shown the other's message only.
C15_Witness ==
    /\ arch = "decentralized" /\ last.done /\ num_agents = 2
    /\ Len(last.handed) = 4
    /\ last.results[1].success /\ last.results[2].success
    /\ Len(last.handed[3].peer_messages) = 1
    /\ last.handed[3].peer_messages[1].sender_id = 1
    /\ Len(last.handed[4].peer_messages) >= 1

\* The cost per message and receiver the configuration of the instance
\* gives.
MessageCost ==
    IF "communication_tokens_per_message" \in DOMAIN cap
    THEN cap.communication_tokens_per_message ELSE 5

\* The messages of the successful executions of the Decentralized call that
\* has returned, in execution order.
Broadcasts ==
    LET sent == SelectSeq([i \in 1..Len(last.results) |-> i],
                          LAMBDA i : last.results[i].success)
    IN  [k \in 1..Len(sent) |-> BroadcastOf(sent[k])]

\* C16: every successful execution of a Decentralized call produces one
\* message, which is stored once in the shared buffer and appended to the
\* log of every peer but its sender, and costs the composite
\* communication_tokens_per_message * (N - 1); a failed execution produces
\* no message and costs nothing.  The buffer holds as many messages as
\* executions of the call succeeded.
C16_Broadcast ==
    (arch = "decentralized" /\ last.done) =>
        /\ shared_messages = Broadcasts
        /\ Len(shared_messages) = Len(Successful(last.results))
        /\ \A p \in 0..(num_agents - 1) :
               agents[p + 1].message_history =
                   last.before.agents[p + 1].message_history
                   \o SelectSeq(Broadcasts, LAMBDA m : m.sender_id # p)
        /\ self.message_history = last.before.self.message_history
        /\ SpentByCall =
               Len(Successful(last.results)) * MessageCost * (num_agents - 1)

\* C16's case: a second call of three peers in which an execution failed
\* and another succeeded, the peers' logs holding messages of the first.
C16_Witness ==
    /\ arch = "decentralized" /\ last.done /\ num_agents = 3 /\ last.call = 2
    /\ \E i, j \in DOMAIN last.results :
           last.results[i].success /\ ~last.results[j].success
    /\ last.before.agents[1].message_history # <<>>
    /\ SpentByCall > 0

\* The number of rounds the configuration of the instance gives.
Rounds ==
    IF "coordination_rounds" \in DOMAIN cap THEN cap.coordination_rounds ELSE 2

\* C17: in a Decentralized call with N peers, R rounds and message cost M
\* every peer executes R times; when every execution succeeds the peers'
\* tokens total N * R * tokens_per_task and the communication overhead is
\* N * R * M * (N - 1).  With N = 3, R = 1, M = 2 and tokens_per_task = 10
\* these are 30 and 12.
C17_DecentralizedTotals ==
    (arch = "decentralized" /\ last.done) =>
        /\ Len(last.results) = num_agents * Rounds
        /\ \A p \in 0..(num_agents - 1) : ExecutedBy(p) = Rounds
        /\ (\A i \in DOMAIN last.results : last.results[i].success) =>
               /\ SumTokens(last.results) = num_agents * Rounds * T
               /\ ChildrenSpent(num_agents) = num_agents * Rounds * T
               /\ SpentByCall =
                      num_agents * Rounds * MessageCost * (num_agents - 1)
               /\ (num_agents = 3 /\ cap = TestCaps) =>
                      /\ SumTokens(last.results) = 30
                      /\ SpentByCall = 12
                      /\ last.before.self.tokens_used = 0 =>
                             last.result.metadata.communication_overhead = 12

\* C17's case: the three peers of the tests, one round, all succeed.
C17_Witness ==
    /\ arch = "decentralized" /\ last.done /\ num_agents = 3 /\ cap = TestCaps
    /\ Callable(last.task)
    /\ \A i \in DOMAIN last.results : last.results[i].success
    /\ SumTokens(last.results) = 30
    /\ self.tokens_used = 12

\* The executions of the call that has returned that succeeded.
Succeeded == {i \in DOMAIN last.results : last.results[i].success}

TeamOf(t) == {t * team_size + m : m \in 0..(team_size - 1)}

\* The workers a Hybrid holds in its teams.
TeamWorkers == UNION {TeamOf(t) : t \in 0..(NumTeams(num_agents, team_size) - 1)}

\* The teams of a Hybrid are max(1, N // S) in number, of S members each,
\* and stay as they were built.
TeamsFixed ==
    LET teams == IF num_agents \div team_size >= 1
                 THEN num_agents \div team_size ELSE 1
    IN  /\ DOMAIN team_messages = 1..teams
        /\ DOMAIN agents = {w + 1 : w \in TeamWorkers}
        /\ \A t \in 0..(teams - 1) : Cardinality(TeamOf(t)) = team_size
        /\ Len(agents) = teams * team_size
        /\ last.done =>
               /\ Len(last.results) = teams
               /\ DOMAIN last.before.agents = DOMAIN agents

\* C19: a Hybrid built with N workers and team size S has max(1, N // S)
\* teams of exactly S members each, fixed at construction and never changed
\* by execute_task, and the teams together hold exactly its N workers.
C19_TeamsHoldAllWorkers ==
    arch = "hybrid" =>
        /\ TeamsFixed
        /\ Cardinality(TeamWorkers) = num_agents

\* The costs the configuration of the instance gives to a Hybrid.
StrategyCost ==
    IF "strategy_tokens" \in DOMAIN cap THEN cap.strategy_tokens ELSE 20
TeamCommCost ==
    IF "team_comm_tokens" \in DOMAIN cap THEN cap.team_comm_tokens ELSE 3
AggregationCost ==
    IF "aggregation_tokens" \in DOMAIN cap THEN cap.aggregation_tokens ELSE 15

\* The items of the chunks the teams 1..t of the call that has returned were
\* given, one chunk after the other.
RECURSIVE ChunksUpTo(_)
ChunksUpTo(t) ==
    IF t = 0 THEN <<>> ELSE ChunksUpTo(t - 1) \o last.assigned[t].task.items

\* C20: the strategic decomposition of a Hybrid call gives every team one
\* contiguous chunk of a sequence task: the chunks, in team order, make up
\* the sequence (every item in one chunk, the order kept), every team but
\* the last gets max(1, L // teams) items as long as there are items, and
\* the last team gets the remainder.  Of a task that is not a sequence team
\* 0 gets the task and every other team gets none.  The step costs
\* strategy_tokens (20 unless configured) once per call.
C20_StrategicDecomposition ==
    (arch = "hybrid" /\ last.done) =>
        LET teams == Len(last.assigned)
        IN  /\ teams = (IF num_agents \div team_size >= 1
                        THEN num_agents \div team_size ELSE 1)
            /\ \A t \in 1..teams : last.assigned[t].unit = t - 1
            /\ IF IsSequence(last.task)
               THEN LET len == Len(last.task.items)
                        chunk == IF len \div teams >= 1 THEN len \div teams ELSE 1
                    IN  /\ \A t \in 1..teams : IsSequence(last.assigned[t].task)
                        /\ ChunksUpTo(teams) = last.task.items
                        /\ \A t \in 1..(teams - 1) :
                               Len(last.assigned[t].task.items) =
                                   (IF t * chunk <= len THEN chunk ELSE 0)
                        /\ len >= teams =>
                               Len(last.assigned[teams].task.items) =
                                   len - (teams - 1) * chunk
               ELSE /\ last.assigned[1].task = last.task
                    /\ \A t \in 2..teams :
                           /\ last.assigned[t].task = None
                           /\ "status" \in DOMAIN last.results[t].metadata
            /\ SpentByCall =
                   StrategyCost
                   + TeamCommCost * Len(Successful(last.member_results))
                   + AggregationCost

\* C20's case: three items for two teams, of which the last gets two.
C20_Witness ==
    /\ arch = "hybrid" /\ last.done /\ Len(last.assigned) = 2
    /\ IsSequence(last.task) /\ Len(last.task.items) = 3
    /\ Len(last.assigned[1].task.items) = 1
    /\ Len(last.assigned[2].task.items) = 2
    /\ SpentByCall > StrategyCost

\* The teams (from 1) of the Hybrid call that has returned that were given
\* a task, in team order.
Tasked ==
    SelectSeq([t \in 1..Len(last.assigned) |-> t],
              LAMBDA t : last.assigned[t].task # None)

\* The results of the members of the k-th of those teams, in the order the
\* members executed.
MembersOf(k) ==
    SubSeq(last.member_results, (k - 1) * team_size + 1, k * team_size)

\* The messages of the successful results among `results`, the results of
\* the members of team t (from 1), in their order.
TeamBroadcasts(t, results) ==
    LET ok == SelectSeq(results, LAMBDA r : r.success)
    IN  [i \in 1..Len(ok) |->
            Message(ok[i].metadata.agent_id, ok[i].output, "team_result",
                    [team_idx |-> t - 1], last.call)]

\* C21: in a Hybrid team that was given a task every member executes that
\* task once, the members in their order; every successful member appends
\* one message to the team's buffer and costs the coordinator
\* team_comm_tokens (3 unless configured), a failed member does neither; the
\* team's result is a success with the output of the last successful member
\* if a member succeeded, and else the failure 'Team failed to complete
\* task'.
C21_TeamExecution ==
    (arch = "hybrid" /\ last.done) =>
        /\ Len(last.member_results) = Len(Tasked) * team_size
        /\ \A k \in 1..Len(Tasked) :
               LET t == Tasked[k]
                   ms == MembersOf(k)
                   ok == {m \in 1..team_size : ms[m].success}
               IN  /\ \A m \in 1..team_size :
                          /\ ms[m].metadata.agent_id = (t - 1) * team_size + (m - 1)
                          /\ ExecutedBy((t - 1) * team_size + (m - 1)) = 1
                          /\ ~Callable(last.assigned[t].task) =>
                                 ms[m].output = last.assigned[t].task
                   /\ \A m \in 1..team_size :
                          LET e == (k - 1) * team_size + m
                              left == IF m < team_size
                                      THEN last.handed[e + 1].team_messages
                                      ELSE team_messages[t]
                          IN  left = IF ms[m].success
                                     THEN Append(last.buffers[e],
                                              Message(ms[m].metadata.agent_id,
                                                      ms[m].output, "team_result",
                                                      [team_idx |-> t - 1],
                                                      last.call))
                                     ELSE last.buffers[e]
                   /\ (\A m \in 1..team_size :
                           last.buffers[(k - 1) * team_size + m] =
                               last.handed[(k - 1) * team_size + m].team_messages)
                          => /\ team_messages[t] = TeamBroadcasts(t, ms)
                             /\ Len(team_messages[t]) = Cardinality(ok)
                   /\ IF ok # {}
                      THEN /\ last.results[t].success
                           /\ last.results[t].output = ms[Latest(ok)].output
                      ELSE /\ ~last.results[t].success
                           /\ last.results[t].output = None
                           /\ last.results[t].error =
                                  Str("Team failed to complete task")
        /\ SpentByCall - StrategyCost - AggregationCost =
               TeamCommCost * Len(Successful(last.member_results))

\* C21's case: a team of two members of which both succeeded
\* with different outputs, the team's output being the second member's.
C21_Witness ==
    /\ arch = "hybrid" /\ last.done /\ team_size = 2
    /\ Len(last.member_results) = 2
    /\ last.member_results[1].success /\ last.member_results[2].success
    /\ last.member_results[1].output # last.member_results[2].output
    /\ last.results[1].output = last.member_results[2].output
    /\ Len(team_messages[1]) = 2

\* C22: a Hybrid team that was given no task returns a success without
\* output, error or tokens; none of its members executes, the counters and
\* the log of its members stay as they were, its buffer gets no message and
\* the coordinator is charged no team_comm_tokens for it.
C22_TeamWithoutTask ==
    (arch = "hybrid" /\ last.done) =>
        \A t \in DOMAIN last.assigned :
            last.assigned[t].task = None =>
                /\ last.results[t].success
                /\ last.results[t].output = None
                /\ last.results[t].error = None
                /\ last.results[t].tokens_used = 0
                /\ \A m \in 0..(team_size - 1) :
                       /\ ExecutedBy((t - 1) * team_size + m) = 0
                       /\ agents[(t - 1) * team_size + m + 1] =
                              last.before.agents[(t - 1) * team_size + m + 1]
                /\ team_messages[t] = <<>>
                /\ \A i \in DOMAIN last.member_results :
                       last.member_results[i].metadata.agent_id
                           \notin TeamOf(t - 1)
                /\ SpentByCall - StrategyCost - AggregationCost =
                       TeamCommCost * Len(Successful(last.member_results))

\* C22's case: the second team gets no task in a call in which the first
\* team's members succeed, after a call in which its own members executed.
C22_Witness ==
    /\ arch = "hybrid" /\ last.done /\ last.call = 2
    /\ Len(last.assigned) >= 2
    /\ last.assigned[2].task = None
    /\ last.assigned[1].task # None
    /\ ExecutionsOf(last.before.agents, team_size) > 0
    /\ Len(Successful(last.member_results)) > 0

\* The outputs (in team order) of the teams of the Hybrid call that has
\* returned whose result is a success with an output other than None.
CountedOutputs ==
    LET idx == SelectSeq([t \in 1..Len(last.results) |-> t],
                   LAMBDA t : /\ last.results[t].success
                              /\ last.results[t].output # None)
    IN  [i \in 1..Len(idx) |-> last.results[idx[i]].output]

\* C23: the central aggregation of a Hybrid call charges the coordinator
\* aggregation_tokens (15 unless configured) exactly once, and counts only
\* the teams whose result is a success with an output other than None: one
\* such team makes its output the call's output, two or more make the list
\* of their outputs in team order, none makes the call fail with the error
\* 'All teams failed'.
C23_CentralAggregation ==
    (arch = "hybrid" /\ last.done) =>
        /\ SpentByCall - StrategyCost
               - TeamCommCost * Len(Successful(last.member_results))
           = AggregationCost
        /\ last.result.metadata.architecture = "hybrid"
        /\ Len(CountedOutputs) = 0 =>
               /\ ~last.result.success
               /\ last.result.output = None
               /\ last.result.error = Str("All teams failed")
        /\ Len(CountedOutputs) = 1 =>
               /\ last.result.success
               /\ last.result.output = CountedOutputs[1]
        /\ Len(CountedOutputs) >= 2 =>
               /\ last.result.success
               /\ last.result.output = List(CountedOutputs)
        /\ last.result.success =>
               /\ last.result.metadata.successful_teams = Len(CountedOutputs)
               /\ last.result.metadata.coordination_overhead = self.tokens_used

\* C23's case: of two teams the first gives an output and the second
\* succeeds without one (it had no task); the call's output is the first
\* team's output itself, not a list, and one team is counted.
C23_Witness ==
    /\ arch = "hybrid" /\ last.done /\ Len(last.results) = 2
    /\ last.results[1].success /\ last.results[1].output # None
    /\ last.results[2].success /\ last.results[2].output = None
    /\ last.result.success
    /\ last.result.output = last.results[1].output
    /\ last.result.metadata.successful_teams = 1
    /\ last.result.metadata.failed_teams = 1

\* C24: a Hybrid call in which every one of the T teams was given a task
\* and every member succeeded costs the coordinator strategy_tokens +
\* aggregation_tokens + S * T * team_comm_tokens, S being the team size; the
\* first call on four workers in teams of two with strategy 5, team_comm 2
\* and aggregation 5, on a sequence of two items, leaves a coordination
\* overhead of 18.
C24_CoordinationOverhead ==
    (/\ arch = "hybrid" /\ last.done
     /\ Len(Tasked) = NumTeams(num_agents, team_size)
     /\ \A i \in DOMAIN last.member_results : last.member_results[i].success) =>
        /\ Len(last.member_results) = team_size * NumTeams(num_agents, team_size)
        /\ SpentByCall = StrategyCost + AggregationCost
               + team_size * NumTeams(num_agents, team_size) * TeamCommCost
        /\ last.result.success =>
               last.result.metadata.coordination_overhead
                   = last.before.self.tokens_used + SpentByCall
        /\ (/\ num_agents = 4 /\ team_size = 2 /\ cap = TestCaps
            /\ last.before.self.tokens_used = 0
            /\ IsSequence(last.task) /\ Len(last.task.items) = 2) =>
               /\ self.tokens_used = 18
               /\ last.result.success
               /\ last.result.metadata.coordination_overhead = 18

\* C24's case: test_hybrid_agent, the first call on four workers in teams of
\* two with the costs of the test, on a sequence of two items that are no
\* callables; both teams get an item and all four members succeed.
C24_Witness ==
    /\ arch = "hybrid" /\ last.done /\ last.call = 1
    /\ num_agents = TestNumAgents /\ team_size = TestTeamSize /\ cap = TestCaps
    /\ last.task = List(<<Item(1), Item(2)>>)
    /\ Len(Tasked) = 2
    /\ Len(Successful(last.member_results)) = 4
    /\ self.tokens_used = 18

\* The agent b holds at least what the agent a held: no counter is lower and
\* a's message log is the beginning of b's.
NotLowered(a, b) ==
    /\ a.tokens_used <= b.tokens_used
    /\ a.tasks_completed <= b.tasks_completed
    /\ a.errors_count <= b.errors_count
    /\ Len(a.message_history) <= Len(b.message_history)
    /\ SubSeq(b.message_history, 1, Len(a.message_history)) = a.message_history

\* C25: with costs that are not negative, no execute_task, send_message or
\* receive_message call on an instance (a single executor, a composite or
\* one of its children) lowers tokens_used, tasks_completed or errors_count
\* or shortens the message log; execute_task does not zero them, and every
\* step that lowers one of them is a reset_metrics call.
C25_OnlyResetLowers ==
    [][ \/ /\ NotLowered(self, self')
           /\ \A i \in DOMAIN agents : NotLowered(agents[i], agents'[i])
        \/ /\ ResetMetricsCall
           /\ \A i \in DOMAIN agents : NotLowered(agents[i], agents'[i]) ]_vars

\* C25's case: execute_task has returned on an instance that had a message
\* in its log; the log is as it was and the call has added to the counters.
C25_Witness ==
    /\ last.done
    /\ self.message_history # <<>>
    /\ self.message_history = last.before.self.message_history
    /\ self.tokens_used > last.before.self.tokens_used
    /\ self.tasks_completed + self.errors_count
           > last.before.self.tasks_completed + last.before.self.errors_count

\* The agent a with nothing counted and nothing logged.
Zeroed(a) ==
    /\ a.tokens_used = 0
    /\ a.tasks_completed = 0
    /\ a.errors_count = 0
    /\ a.message_history = <<>>

\* C26: reset_metrics, on an agent in any state, leaves it with
\* tokens_used, tasks_completed and errors_count 0 and an empty message log;
\* the call changes neither who the agent is nor its configuration (nor a
\* child of it), and a second reset changes nothing more.
C26_ResetZeroes ==
    [][ /\ \A i \in DOMAIN agents :
               /\ Zeroed(ResetMetrics(agents[i]))
               /\ ResetMetrics(ResetMetrics(agents[i])) = ResetMetrics(agents[i])
        /\ ResetMetricsCall =>
               /\ Zeroed(self')
               /\ ResetMetrics(self') = self'
               /\ cap' = cap /\ arch' = arch
               /\ num_agents' = num_agents /\ team_size' = team_size
               /\ agents' = agents ]_vars

\* C26's case: test_agent_reset_metrics, a single executor that has executed
\* has been reset and has a clean slate.
C26_Witness ==
    /\ arch = "single" /\ calls >= 1 /\ ~last.done
    /\ Zeroed(self)

\* The calls on the selector that have returned: every pair of them, the
\* earlier first.
AnswerPairs ==
    {p \in (DOMAIN answers) \X (DOMAIN answers) : p[1] < p[2]}

\* What a method of a selector that no call has touched returns, for the
\* inputs of the answer a.
FreshAnswer(a) ==
    IF a.op = "select"
    THEN [op |-> "select", task |-> a.task, capabilities |-> a.capabilities,
          architecture |->
              SelectArchitecture(NewSelector, a.task, a.capabilities).architecture]
    ELSE [op |-> "predict", task |-> a.task, capabilities |-> a.capabilities,
          scores |-> PredictAllScores(NewSelector, a.task, a.capabilities).scores,
          unscaled |->
              PredictAllScores(NewSelector, a.task, a.capabilities).unscaled]

Place(a) == CHOOSE i \in DOMAIN Architectures : Architectures[i] = a

\* C28: the architecture select_architecture returns has the greatest of
\* the five scores predict_all_scores returns for the same inputs, and of
\* the architectures with that score it is the first in the order single,
\* independent, centralized, decentralized, hybrid.
C28_ArgMaxFirst ==
    \A i, j \in DOMAIN answers :
        (/\ answers[i].op = "select" /\ answers[j].op = "predict"
         /\ answers[i].task = answers[j].task
         /\ answers[i].capabilities = answers[j].capabilities) =>
            LET best == answers[i].architecture
                scores == answers[j].scores
            IN  /\ DOMAIN scores =
                       {"single", "independent", "centralized",
                        "decentralized", "hybrid"}
                /\ best \in DOMAIN scores
                /\ \A a \in DOMAIN scores :
                       /\ scores[a] <= scores[best]
                       /\ scores[a] = scores[best] => Place(best) <= Place(a)
                /\ Architectures =
                       <<"single", "independent", "centralized",
                         "decentralized", "hybrid">>

\* C28's case: predict_all_scores gives single and hybrid the same score,
\* the greatest, and select_architecture returns single for the same inputs.
C28_Witness ==
    /\ Len(answers) = 2 /\ inputs[1] = inputs[2]
    /\ answers[1].op = "predict" /\ answers[2].op = "select"
    /\ answers[1].scores["single"] = answers[1].scores["hybrid"]
    /\ \A a \in DOMAIN answers[1].scores :
           answers[1].scores[a] <= answers[1].scores["single"]
    /\ answers[2].architecture = "single"

\* The architectures other than single.
NonSingle == {"independent", "centralized", "decentralized", "hybrid"}

\* Two predict_all_scores calls have returned, for the same inputs but for
\* those named in `but`: the later call is the second.
SameBut(p, but) ==
    /\ answers[p[1]].op = "predict" /\ answers[p[2]].op = "predict"
    /\ answers[p[1]].task = answers[p[2]].task
    /\ \A f \in {"baseline_accuracy", "token_budget", "model_capability"} \ but :
           answers[p[1]].capabilities[f] = answers[p[2]].capabilities[f]

\* C29 (as stated): with the task, the token budget and a model capability
\* in [0, 1] fixed, of two baseline accuracies above 0.45 the greater gives
\* every architecture other than single a score that is not greater.
C29_SaturationMonotone ==
    \A p \in AnswerPairs :
        (/\ SameBut(p, {"baseline_accuracy"})
         /\ answers[p[1]].capabilities.model_capability >= 0
         /\ answers[p[1]].capabilities.model_capability <= Lit(1, 1)
         /\ answers[p[1]].capabilities.baseline_accuracy > Lit(45, 100)
         /\ answers[p[1]].capabilities.baseline_accuracy
                < answers[p[2]].capabilities.baseline_accuracy) =>
            \A a \in NonSingle :
                answers[p[2]].scores[a] <= answers[p[1]].scores[a]

\* C30: the saturation adjustment (baseline_accuracy above 0.45) and the
\* low-budget penalty (token_budget below 1000) reach every architecture
\* other than single and never single: the score of single is the same
\* whatever the baseline accuracy and the token budget; with a budget below
\* 1000 every other score is, before the capability scaling, the score
\* with a budget of 1000 or more less 0.2; and an accuracy of 1 gives every
\* other architecture a lower score than an accuracy of 0.3 does.
C30_AdjustmentsSpareSingle ==
    \A p \in AnswerPairs :
        /\ SameBut(p, {"baseline_accuracy", "token_budget"}) =>
               /\ answers[p[1]].scores["single"] = answers[p[2]].scores["single"]
               /\ answers[p[1]].unscaled["single"]
                      = answers[p[2]].unscaled["single"]
        /\ (/\ SameBut(p, {"token_budget"})
            /\ answers[p[1]].capabilities.token_budget >= 1000
            /\ answers[p[2]].capabilities.token_budget < 1000) =>
               \A a \in NonSingle :
                   /\ answers[p[2]].unscaled[a]
                          = FSub(answers[p[1]].unscaled[a], Lit(2, 10))
                   /\ answers[p[2]].scores[a]
                          = FMul(answers[p[2]].unscaled[a],
                                 FAdd(Lit(8, 10),
                                      FMul(Lit(4, 10),
                                           answers[p[2]].capabilities.model_capability)))
                   /\ answers[p[2]].scores[a] < answers[p[1]].scores[a]
        /\ (/\ SameBut(p, {"baseline_accuracy"})
            /\ answers[p[1]].capabilities.baseline_accuracy <= Lit(45, 100)
            /\ answers[p[2]].capabilities.baseline_accuracy > Lit(45, 100)) =>
               \A a \in NonSingle :
                   /\ a # "independent" =>
                          answers[p[2]].scores[a] <= answers[p[1]].scores[a]
                   /\ (/\ answers[p[1]].capabilities.baseline_accuracy = Lit(3, 10)
                       /\ answers[p[2]].capabilities.baseline_accuracy = Lit(1, 1)) =>
                          answers[p[2]].scores[a] < answers[p[1]].scores[a]

\* C30's case: test_token_budget_effect's two calls, a budget of 10000 and
\* then one of 500 with all else equal, for a baseline accuracy above the
\* threshold: centralized loses 0.2 before the scaling, single loses nothing.
C30_Witness ==
    /\ Len(answers) = 2
    /\ SameBut(<<1, 2>>, {"token_budget"})
    /\ answers[1].capabilities.token_budget = 10000
    /\ answers[2].capabilities.token_budget = 500
    /\ answers[1].capabilities.baseline_accuracy > Lit(45, 100)
    /\ answers[2].unscaled["centralized"]
           = FSub(answers[1].unscaled["centralized"], Lit(2, 10))
    /\ answers[2].unscaled["centralized"] < answers[1].unscaled["centralized"]
    /\ answers[2].scores["single"] = answers[1].scores["single"]

\* C31 (as stated): the workers of a Centralized call are invoked one at a
\* time in assignment order, and the global_state a subtask is shown holds
\* exactly the outputs of the successful subtasks that ran before it in the
\* call, under the worker's key: of a worker that succeeded more than once
\* the latest output, of a subtask that failed nothing.
C31_GlobalStateShown ==
    (arch = "centralized" /\ last.done) =>
        /\ Len(last.handed) = Len(last.assigned)
        /\ Len(last.results) = Len(last.assigned)
        /\ \A j \in DOMAIN last.assigned :
               /\ last.results[j].metadata.agent_id = last.assigned[j].unit
               /\ DOMAIN last.handed[j].global_state =
                      {w \in 0..(num_agents - 1) : SucceededOn(w, j - 1) # {}}
               /\ \A w \in DOMAIN last.handed[j].global_state :
                      last.handed[j].global_state[w].val =
                          last.results[Latest(SucceededOn(w, j - 1))].output

\* What the coordinator of the Hybrid call that has returned has written
\* into global_state when the teams before team t (from 0) have finished:
\* for every one of them that succeeded, its output under its key.
TeamsWrote(t) ==
    [u \in {v \in 0..(t - 1) : last.results[v + 1].success} |->
        [val |-> last.results[u + 1].output, written |-> last.call]]

\* C32 (as stated): the teams of a Hybrid call execute one after the other
\* in team order; the output of a successful team is in global_state under
\* the team's key before the next team starts and a failed team writes
\* nothing, so that the members of team k are shown exactly the entries of
\* the successful teams before k; every entry is there when the call
\* aggregates and returns.
C32_TeamEntriesShown ==
    (arch = "hybrid" /\ last.done) =>
        /\ \A t \in DOMAIN last.assigned : last.assigned[t].unit = t - 1
        /\ Len(last.handed) = Len(Tasked) * team_size
        /\ \A k \in 1..Len(Tasked) : \A m \in 1..team_size :
               LET shown == last.handed[(k - 1) * team_size + m]
               IN  /\ shown.team_idx = Tasked[k] - 1
                   /\ shown.global_state = TeamsWrote(Tasked[k] - 1)
        /\ global_state = TeamsWrote(Len(last.results))

\* The errors the children count more than before the call that has
\* returned, all children together.
RECURSIVE ChildErrorsSince(_)
ChildErrorsSince(i) ==
    IF i = 0 THEN 0
    ELSE agents[i].errors_count - last.before.agents[i].errors_count
             + ChildErrorsSince(i - 1)

\* C33: the errors_count of a Centralized, Decentralized or Hybrid composite
\* changes only in a call that fails as a whole, and then it grows by the
\* number of subtasks, pooled results or teams of the call while
\* tasks_completed stays; in a call that succeeds, with failed children or
\* without, errors_count stays and tasks_completed grows by the number of
\* subtasks, pooled results or teams that succeeded.  The failed executions
\* are counted on the children that failed: one error each.
C33_CompositeErrors ==
    (arch \in Sequential /\ last.done) =>
        /\ IF last.result.success
           THEN /\ self.errors_count = last.before.self.errors_count
                /\ self.tasks_completed =
                       last.before.self.tasks_completed
                           + Len(Successful(UnitResults))
           ELSE /\ self.errors_count =
                       last.before.self.errors_count + Len(last.results)
                /\ self.tasks_completed = last.before.self.tasks_completed
        /\ ChildErrorsSince(Len(agents)) =
               Len(ChildResults) - Len(Successful(ChildResults))

\* C33's case: a Centralized call succeeds although its first subtask
\* failed, after a call that failed as a whole: the coordinator's errors are
\* those of the earlier call, the worker of the failed subtask has counted
\* it.
C33_Witness ==
    /\ arch = "centralized" /\ last.done /\ last.call = 2
    /\ last.result.success
    /\ Len(last.results) >= 2
    /\ ~last.results[1].success
    /\ last.before.self.errors_count = 1
    /\ self.errors_count = 1
    /\ self.tasks_completed = Len(last.results) - 1
    /\ agents[1].errors_count = last.before.agents[1].errors_count + 1

\* The executions the children have completed, all children together.
RECURSIVE CompletedBy(_)
CompletedBy(children) ==
    IF children = <<>> THEN 0
    ELSE children[1].tasks_completed + CompletedBy(Tail(children))

\* C34: reset_metrics on a composite zeroes the composite's own counters
\* and message log and nothing else: every child keeps its tokens_used,
\* tasks_completed, errors_count and message log, and the composite keeps
\* its global_state and its message buffers; the total_agent_tokens its
\* metrics report after the reset is what it was before, the tokens the
\* children have accumulated (the per-task cost for every execution a child
\* has completed).
C34_ResetKeepsChildren ==
    [][ (ResetMetricsCall /\ arch # "single") =>
            /\ Zeroed(self')
            /\ agents' = agents
            /\ global_state' = global_state
            /\ shared_messages' = shared_messages
            /\ team_messages' = team_messages
            /\ TotalAgentTokens(agents') = TotalAgentTokens(agents)
            /\ TotalAgentTokens(agents') = T * CompletedBy(agents') ]_vars

\* C34's case: a Centralized coordinator has been reset after a call: its
\* own counters are zero while its workers hold the tokens of the call and
\* global_state holds the entries of the call.
C34_Witness ==
    /\ arch = "centralized" /\ calls >= 1 /\ ~last.done
    /\ Zeroed(self)
    /\ TotalAgentTokens(agents) > 0
    /\ \E i \in DOMAIN agents : agents[i].errors_count > 0
    /\ global_state # EmptyDict

\* C35: a Decentralized execute empties the composite's shared message
\* buffer and leaves the peers' own message logs as they are: a peer's log
\* keeps what it received in the earlier calls and holds one message for
\* every successful execution of another peer in any call so far, while the
\* shared buffer holds the broadcasts of the last call alone.  After k calls
\* in which every execution succeeded, with R rounds and N peers, every
\* peer's log holds k * R * (N - 1) messages and the shared buffer N * R.
C35_PeerLogsAccumulate ==
    arch = "decentralized" =>
        /\ \A i \in DOMAIN agents :
               /\ Len(agents[i].message_history) =
                      CompletedBy(agents) - agents[i].tasks_completed
               /\ \A m \in Range(agents[i].message_history) :
                      m.sender_id # i - 1
        /\ last.done =>
               /\ Len(shared_messages) = Len(Successful(last.results))
               /\ \A m \in Range(shared_messages) : m.written = last.call
               /\ \A i \in DOMAIN agents :
                      SubSeq(agents[i].message_history, 1,
                             Len(last.before.agents[i].message_history))
                          = last.before.agents[i].message_history
               /\ (\A i \in DOMAIN agents : agents[i].errors_count = 0) =>
                      /\ \A i \in DOMAIN agents :
                             Len(agents[i].message_history) =
                                 calls * Rounds * (num_agents - 1)
                      /\ Len(shared_messages) = num_agents * Rounds

\* C35's case: the second call of three peers that make one round, every
\* execution of both calls a success: every peer's log holds four messages,
\* two of them of the first call, and the shared buffer holds three.
C35_Witness ==
    /\ arch = "decentralized" /\ last.done /\ calls = 2
    /\ num_agents = 3 /\ Rounds = 1
    /\ \A i \in DOMAIN agents :
           /\ agents[i].errors_count = 0
           /\ Len(agents[i].message_history) = 4
           /\ agents[i].message_history[1].written = 1
           /\ agents[i].message_history[4].written = 2
    /\ Len(shared_messages) = 3

\* C36: a Hybrid call on a sequence hands every member of a team the whole
\* chunk of the team, and the member takes the chunk as a value: every
\* member succeeds with its team's chunk as its output, counts one completed
\* task and no error, and the chunk it returns still holds the items as they
\* were given, callables included, none of them invoked.  A Centralized call
\* on a sequence of callables invokes each item: the output of a successful
\* subtask is what the item returned, never the item.
C36_ChunkIsAValue ==
    /\ (arch = "hybrid" /\ last.done /\ IsSequence(last.task)) =>
           LET teams == Len(last.assigned)
           IN  /\ Len(last.member_results) = teams * team_size
               /\ ChunksUpTo(teams) = last.task.items
               /\ \A k \in 1..teams : \A m \in 1..team_size :
                      LET id == (k - 1) * team_size + m
                          r == last.member_results[id]
                      IN  /\ r.success
                          /\ r.metadata.agent_id = id - 1
                          /\ r.output = last.assigned[k].task
                          /\ IsSequence(r.output)
                          /\ r.tokens_used = T
                          /\ agents[id].tasks_completed =
                                 last.before.agents[id].tasks_completed + 1
                          /\ agents[id].errors_count =
                                 last.before.agents[id].errors_count
               /\ \A k \in 1..teams :
                      /\ last.results[k].success
                      /\ last.results[k].output = last.assigned[k].task
               /\ last.result.success
    /\ (arch = "centralized" /\ last.done /\ IsSequence(last.task)) =>
           \A j \in DOMAIN last.assigned :
               Callable(last.assigned[j].task) =>
                   /\ ExecutedBy(last.assigned[j].unit) >= 1
                   /\ last.results[j].success =>
                          /\ ~Callable(last.results[j].output)
                          /\ last.results[j].output = Num(j)

\* C36's case: two teams of two on a sequence of three callables: the
\* members of the second team return the chunk of two callables.
C36_Witness ==
    /\ arch = "hybrid" /\ last.done /\ IsSequence(last.task)
    /\ Len(last.assigned) = 2 /\ team_size = 2
    /\ Len(last.task.items) = 3
    /\ \A i \in 1..3 : Callable(last.task.items[i])
    /\ last.member_results[4].success
    /\ last.member_results[4].output = List(<<Fn("script"), Fn("script")>>)

\* C37: a Hybrid call on a sequence of fewer items than teams (the empty
\* sequence included) gives the teams beyond the items an empty chunk, not
\* a missing task: every member of such a team executes, is charged
\* tokens_per_task and costs the composite team_comm_tokens, and the team's
\* empty chunk is a successful output that is not None: the team is counted
\* among the successful teams and its output is part of the final one.
C37_EmptyChunkIsATask ==
    (arch = "hybrid" /\ last.done /\ IsSequence(last.task)
         /\ Len(last.task.items) < Len(last.assigned)) =>
        LET teams == Len(last.assigned)
            len == Len(last.task.items)
        IN  /\ \A t \in (len + 1)..teams :
                   /\ last.assigned[t].task = List(<<>>)
                   /\ last.assigned[t].task # None
                   /\ "status" \notin DOMAIN last.results[t].metadata
                   /\ last.results[t].success
                   /\ last.results[t].output = List(<<>>)
                   /\ last.results[t].tokens_used = team_size * T
                   /\ Len(team_messages[t]) = team_size
                   /\ \A m \in 1..team_size :
                          LET id == (t - 1) * team_size + m
                          IN  /\ ExecutedBy(id - 1) = 1
                              /\ agents[id].tokens_used =
                                     last.before.agents[id].tokens_used + T
                              /\ last.member_results[id].success
                              /\ team_messages[t][m].sender_id = id - 1
                              /\ team_messages[t][m].content = List(<<>>)
                   /\ global_state[t - 1].val = List(<<>>)
            /\ SpentByCall = StrategyCost + TeamCommCost * teams * team_size
                                 + AggregationCost
            /\ last.result.success
            /\ last.result.metadata.successful_teams = teams
            /\ last.result.metadata.failed_teams = 0
            /\ self.tasks_completed = last.before.self.tasks_completed + teams
            /\ self.errors_count = last.before.self.errors_count
            /\ last.result.output =
                   FinalOutput([t \in 1..teams |-> last.assigned[t].task])

\* C37's case: two teams of two on the empty sequence, both with an empty
\* chunk, every member of both executed.
C37_Witness ==
    /\ arch = "hybrid" /\ last.done /\ Len(last.assigned) = 2
    /\ team_size = 2
    /\ last.task = List(<<>>)
    /\ last.result.success
    /\ last.result.output = List(<<List(<<>>), List(<<>>)>>)
    /\ last.result.metadata.successful_teams = 2
    /\ agents[3].tasks_completed >= 1

\* The messages of the buffer b whose sender comes before the agent id.
SentBefore(b, id) == SelectSeq(b, LAMBDA msg : msg.sender_id < id)

\* C38: the teams of a Hybrid are isolated from each other: the buffer of
\* team j holds only messages whose sender is a member of team j, at most
\* one of each member, in the order of the members, each marked with team
\* j; and the context of a member shows the buffer of its own team alone:
\* what the members of its team before it have sent, nothing of another
\* team.
C38_TeamIsolation ==
    (arch = "hybrid" /\ last.done) =>
        /\ Len(team_messages) = Len(last.assigned)
        /\ \A t \in DOMAIN team_messages :
               LET b == team_messages[t]
               IN  /\ \A i \in DOMAIN b :
                          /\ b[i].sender_id \in TeamOf(t - 1)
                          /\ b[i].metadata.team_idx = t - 1
                          /\ b[i].written = last.call
                   /\ \A i, j \in DOMAIN b :
                          i < j => b[i].sender_id < b[j].sender_id
                   /\ Len(b) <= team_size
        /\ \A k \in 1..Len(Tasked) : \A m \in 1..team_size :
               LET t == Tasked[k]
                   id == (t - 1) * team_size + (m - 1)
                   shown == last.handed[(k - 1) * team_size + m]
               IN  /\ shown.team_idx = t - 1
                   /\ shown.team_messages = SentBefore(team_messages[t], id)
                   /\ \A msg \in Range(shown.team_messages) :
                          msg.sender_id \in TeamOf(t - 1)

\* C39: degenerate inputs fail without an execution.  A Centralized call on
\* the empty sequence returns the failure 'All subtasks failed', and a call
\* of a Decentralized configured with coordination_rounds = 0 returns the
\* failure 'No agents reached consensus'; in both no worker or peer
\* executes, no result is collected and no message sent, and the composite
\* and every child keep their counters and logs as they were: no token is
\* charged.
C39_DegenerateInputs ==
    /\ (arch = "centralized" /\ last.done /\ last.task = List(<<>>)) =>
           /\ ~last.result.success
           /\ last.result.output = None
           /\ last.result.error = Str("All subtasks failed")
           /\ last.results = <<>> /\ last.handed = <<>>
           /\ last.assigned = <<>>
           /\ \A w \in 0..(num_agents - 1) : ExecutedBy(w) = 0
           /\ agents = last.before.agents
           /\ self = last.before.self
           /\ SpentByCall = 0
           /\ global_state = EmptyDict
    /\ (arch = "decentralized" /\ last.done /\ Rounds = 0) =>
           /\ ~last.result.success
           /\ last.result.output = None
           /\ last.result.error = Str("No agents reached consensus")
           /\ last.results = <<>> /\ last.handed = <<>>
           /\ \A w \in 0..(num_agents - 1) : ExecutedBy(w) = 0
           /\ agents = last.before.agents
           /\ self = last.before.self
           /\ SpentByCall = 0
           /\ last.result.tokens_used = 0
           /\ shared_messages = <<>>

\* C39's case: the second call of a Decentralized of three peers that makes
\* no round, on a callable task, failed as the first one did.
C39_Witness ==
    /\ arch = "decentralized" /\ last.done /\ Rounds = 0
    /\ num_agents = 3 /\ calls = 2
    /\ Callable(last.task)
    /\ ~last.result.success
    /\ Executions(agents) = 0

====
